---- MODULE Spec2Model ----
(***************************************************************************)
(* The socket.io tic-tac-toe server of example4/backend/src/index.ts:      *)
(* the registry `states` of xstate interpreters (one per game room), the   *)
(* per-room machine WAITING -> X <-> O -> GAME_OVER, the socket handlers   *)
(* CREATE_GAME, JOIN_GAME, PLAY, RESTARTED and disconnecting, and what     *)
(* each handler emits.                                                     *)
(***************************************************************************)
EXTENDS Integers, Sequences, FiniteSets, TLC

(* ------------------------------ bounds -------------------------------- *)

\* Spec: the connections of a run of the repository's own clients, and the
\* identifiers uuid() hands out in it (the rooms ever created).
MaxClients == 2

MaxRooms == 1

\* SpecServer: the connections of a run of arbitrary clients, the identifiers
\* uuid() hands out in it, and the last of the positions 0..MaxPosition its
\* clients send.
MaxSockets == 3

MaxGames == 1

MaxPosition == 4

\* SpecRooms: the connections of a run of the repository's own clients in
\* several rooms, the identifiers uuid() hands out in it, the last of the
\* positions 0..MaxRoomPosition its first MaxBusyPeers connections send and
\* the last of the positions 0..MaxSidePosition the others send.
MaxPeers == 3

MaxPairs == 2

MaxBusyPeers == 2

MaxRoomPosition == 4

MaxSidePosition == 1

\* SpecMulti: the connections of a run of arbitrary clients that create and
\* join several rooms, the identifiers uuid() hands out (or the clients name)
\* in it, and the last of the positions 0..MaxMultiPosition its clients send.
MaxMultiSockets == 2

MaxMultiGames == 2

MaxMultiPosition == 1

\* SpecAsync: the connections of a run of arbitrary clients whose CREATE_GAME
\* and JOIN_GAME handlers are suspended at their await, the identifiers of
\* the run, the last of the positions its clients send and the handlers that
\* may be suspended at the same time.
MaxAsyncSockets == 2

MaxAsyncGames == 2

MaxAsyncPosition == 0

MaxPending == 2

\* SpecPayload: the connections and identifiers of a run of arbitrary clients
\* whose PLAY payload is any integer: the positions 0..MaxPayloadPosition
\* and the integers of OutOfRange.
MaxPayloadSockets == 2

MaxPayloadGames == 1

MaxPayloadPosition == 2

\* SpecClients: the connections of a run of the repository's own clients
\* with the clients' machines and the emits on their way to them, the
\* identifiers uuid() hands out in it, the last of the positions
\* 0..MaxViewPosition its clients send and the emits that may be on their
\* way to one client at the same time.
MaxViewClients == 2

MaxViewRooms == 1

MaxViewPosition == 4

MaxInFlight == 2

\* SpecClicks: the last of the rows 1..MaxClickRow whose cells the user of
\* the local game clicks.
MaxClickRow == 2

SocketNames == <<"s1", "s2", "s3", "s4", "s5">>

GameNames == <<"g1", "g2", "g3", "g4">>

\* socket.id of the connections of Spec, of SpecServer, and of both.
Clients == {SocketNames[i] : i \in 1..MaxClients}

Sockets == {SocketNames[i] : i \in 1..MaxSockets}

Peers == {SocketNames[i] : i \in 1..MaxPeers}

MultiSockets == {SocketNames[i] : i \in 1..MaxMultiSockets}

AsyncSockets == {SocketNames[i] : i \in 1..MaxAsyncSockets}

PayloadSockets == {SocketNames[i] : i \in 1..MaxPayloadSockets}

ViewClients == {SocketNames[i] : i \in 1..MaxViewClients}

AllSockets ==
  Clients \cup Sockets \cup Peers \cup MultiSockets \cup AsyncSockets
    \cup PayloadSockets \cup ViewClients

\* The values uuid() returns in Spec, and in SpecServer.
RoomIds == {GameNames[i] : i \in 1..MaxRooms}

GameIds == {GameNames[i] : i \in 1..MaxGames}

PairIds == {GameNames[i] : i \in 1..MaxPairs}

MultiGameIds == {GameNames[i] : i \in 1..MaxMultiGames}

AsyncGameIds == {GameNames[i] : i \in 1..MaxAsyncGames}

PayloadGameIds == {GameNames[i] : i \in 1..MaxPayloadGames}

ViewRoomIds == {GameNames[i] : i \in 1..MaxViewRooms}

(* --------------------------- types (8-52) ----------------------------- *)

\* O.none of fp-ts; O.some(v) is modelled by v itself.
None == "none"

Player == {"X", "O"}

Position == 0..8

\* The positions the clients of SpecServer send.
ServerPositions == {position \in Position : position <= MaxPosition}

Result ==
  {"Draw", "Row1", "Row2", "Row3", "Column1", "Column2", "Column3", "Diagonal1", "Diagonal2"}

\* winPatterns with the columns entered before the rows.
winPatterns_ColumnsFirst ==
  << [result |-> "Column1", positions |-> <<0, 3, 6>>],
     [result |-> "Column2", positions |-> <<1, 4, 7>>],
     [result |-> "Column3", positions |-> <<2, 5, 8>>],
     [result |-> "Row1", positions |-> <<0, 1, 2>>],
     [result |-> "Row2", positions |-> <<3, 4, 5>>],
     [result |-> "Row3", positions |-> <<6, 7, 8>>],
     [result |-> "Diagonal1", positions |-> <<0, 4, 8>>],
     [result |-> "Diagonal2", positions |-> <<6, 4, 2>>] >>

\* The Map winPatterns in insertion order, which is the order of .entries().
winPatterns ==
  << [result |-> "Row1", positions |-> <<0, 1, 2>>],
     [result |-> "Row2", positions |-> <<3, 4, 5>>],
     [result |-> "Row3", positions |-> <<6, 7, 8>>],
     [result |-> "Column1", positions |-> <<0, 3, 6>>],
     [result |-> "Column2", positions |-> <<1, 4, 7>>],
     [result |-> "Column3", positions |-> <<2, 5, 8>>],
     [result |-> "Diagonal1", positions |-> <<0, 4, 8>>],
     [result |-> "Diagonal2", positions |-> <<6, 4, 2>>] >>

\* The elements of a pattern's position triple.
Range(seq) == {seq[i] : i \in DOMAIN seq}

\* The positions the clients of SpecRooms, and of SpecMulti, send.
RoomPositions(s) ==
  LET busy == {SocketNames[i] : i \in 1..MaxBusyPeers}
  IN  {position \in Position :
         position <= (IF s \in busy THEN MaxRoomPosition ELSE MaxSidePosition)}

MultiPositions == {position \in Position : position <= MaxMultiPosition}

\* The positions the clients of SpecClients send.
ViewPositions == {position \in Position : position <= MaxViewPosition}

\* Integers a client can send in a PLAY that are no Position: socket.io hands
\* the handler whatever the packet holds (position: Position is a type
\* annotation, nothing checks it at run time).
OutOfRange == {-1, 9}

\* The payloads the clients of SpecPayload send.
Payloads == {position \in Position : position <= MaxPayloadPosition} \cup OutOfRange

(* --------------------- Board: a Map<Position, Player> ------------------ *)

\* new Map()
EmptyBoard == << >>

\* board.has(position)
BoardHas(board, position) == position \in DOMAIN board

\* board.get(position): the player, or undefined (modelled by None).
BoardGet(board, position) == IF position \in DOMAIN board THEN board[position] ELSE None

\* board.set(position, player)
BoardSet(board, position, player) ==
  [q \in (DOMAIN board) \cup {position} |-> IF q = position THEN player ELSE board[q]]

\* board.size
BoardSize(board) == Cardinality(DOMAIN board)

(* ------------------------ the machine (65-224) ------------------------ *)

\* A machine m is the interpreter's current State: m.value is the state node,
\* m.context the Context, m.changed xstate's State.changed (whether the last
\* event sent took a transition).

\* meta.state.matches('X') ? 'X' : 'O'
PlayerOf(value) == IF value = "X" THEN "X" ELSE "O"

\* isValidPlay without the comparison of e.player with ctx.X and ctx.O.
isValidPlay_AnyPlayer(ctx, e, value) ==
  /\ ~BoardHas(ctx.client.board, e.position)
  /\ value \in {"X", "O"}

\* isValidPlay without the board.has(e.position) test.
isValidPlay_NoHasCheck(ctx, e, value) ==
  \/ value = "X" /\ e.player = ctx.X
  \/ value = "O" /\ ctx.O # None /\ ctx.O = e.player

isValidPlay(ctx, e, value) ==
  /\ ~BoardHas(ctx.client.board, e.position)
  /\ \/ value = "X" /\ e.player = ctx.X
     \/ value = "O" /\ ctx.O # None /\ ctx.O = e.player

\* The pattern test with board.has(position) in place of the comparison of
\* the mark with the player.
PatternMatches_AnyMark(ctx, e, player, i) ==
  /\ e.position \in Range(winPatterns[i].positions)
  /\ \A position \in Range(winPatterns[i].positions) :
       \/ position = e.position
       \/ BoardHas(ctx.client.board, position)

\* The pattern test of the for loop of matchResult.
PatternMatches(ctx, e, player, i) ==
  /\ e.position \in Range(winPatterns[i].positions)
  /\ \A position \in Range(winPatterns[i].positions) :
       \/ position = e.position
       \/ BoardGet(ctx.client.board, position) = player

\* matchResult returning the last matching pattern instead of the first.
matchResult_LastMatch(ctx, e, player) ==
  IF \E i \in DOMAIN winPatterns : PatternMatches(ctx, e, player, i)
  THEN LET final == CHOOSE i \in DOMAIN winPatterns :
                      /\ PatternMatches(ctx, e, player, i)
                      /\ \A j \in DOMAIN winPatterns :
                           j > i => ~PatternMatches(ctx, e, player, j)
       IN  winPatterns[final].result
  ELSE IF BoardSize(ctx.client.board) = 9 THEN "Draw" ELSE None

matchResult(ctx, e, player) ==
  IF \E i \in DOMAIN winPatterns : PatternMatches(ctx, e, player, i)
  THEN LET first == CHOOSE i \in DOMAIN winPatterns :
                      /\ PatternMatches(ctx, e, player, i)
                      /\ \A j \in 1..(i - 1) : ~PatternMatches(ctx, e, player, j)
       IN  winPatterns[first].result
  ELSE IF BoardSize(ctx.client.board) = 9 THEN "Draw" ELSE None

IS_GAME_OVER(ctx, e, value) ==
  isValidPlay(ctx, e, value) /\ matchResult(ctx, e, PlayerOf(value)) # None

IS_VALID_PLAY(ctx, e, value) == isValidPlay(ctx, e, value)

\* PLAY_POSITION setting the position in a new Map instead of ctx's board.
PLAY_POSITION_Fresh(ctx, e, value) ==
  [ctx EXCEPT !.client.board = BoardSet(EmptyBoard, e.position, PlayerOf(value))]

\* PLAY_POSITION setting the mark X whatever the state.
PLAY_POSITION_AlwaysX(ctx, e, value) ==
  [ctx EXCEPT !.client.board = BoardSet(ctx.client.board, e.position, "X")]

PLAY_POSITION(ctx, e, value) ==
  [ctx EXCEPT !.client.board = BoardSet(ctx.client.board, e.position, PlayerOf(value))]

\* CHANGE_TURN assigning the turn of the state left instead of the other one.
CHANGE_TURN_Keep(ctx, e, value) ==
  [ctx EXCEPT !.client.turn = IF value = "X" THEN "X" ELSE "O"]

CHANGE_TURN(ctx, e, value) ==
  [ctx EXCEPT !.client.turn = IF value = "X" THEN "O" ELSE "X"]

\* ASSIGN_O recording the joiner as X instead of O.
ASSIGN_O_AsX(ctx, e) == [ctx EXCEPT !.X = e.O]

ASSIGN_O(ctx, e) == [ctx EXCEPT !.O = e.O]

ASSIGN_WINNER(ctx, e, value) ==
  [ctx EXCEPT !.client.result = matchResult(ctx, e, PlayerOf(value))]

initialState(game, x, o) ==
  [O |-> o, X |-> x,
   client |-> [game |-> game, turn |-> "X", board |-> EmptyBoard, result |-> None]]

\* RESTARTED clearing result and turn but keeping the board.
RESTARTED_ACTION_KeepBoard(ctx) ==
  [ctx EXCEPT !.client.result = None, !.client.turn = "X"]

\* RESTARTED clearing board and turn but keeping the result.
RESTARTED_ACTION_KeepResult(ctx) ==
  [ctx EXCEPT !.client.board = EmptyBoard, !.client.turn = "X"]

RESTARTED_ACTION(ctx) == initialState(ctx.client.game, ctx.X, ctx.O)

\* createNewGameMachine with initial: 'X' instead of 'WAITING'.
createNewGameMachine_InitialX(game, x) ==
  [value |-> "X", changed |-> FALSE, context |-> initialState(game, x, None)]

\* The State after the started interpreter of createNewGameMachine(game, x).
createNewGameMachine(game, x) ==
  [value |-> "WAITING", changed |-> FALSE, context |-> initialState(game, x, None)]

\* The State with no transition taken: same value and context, changed false.
Unchanged(m) == [m EXCEPT !.changed = FALSE]

\* PLAYED with CHANGE_TURN also among the actions of the game-over branch.
OnPLAYED_FlipAtEnd(m, e) ==
  IF IS_GAME_OVER(m.context, e, m.value)
  THEN [value |-> "GAME_OVER", changed |-> TRUE,
        context |-> CHANGE_TURN(ASSIGN_WINNER(PLAY_POSITION(m.context, e, m.value), e, m.value),
                                e, m.value)]
  ELSE IF IS_VALID_PLAY(m.context, e, m.value)
  THEN [value |-> IF m.value = "X" THEN "O" ELSE "X", changed |-> TRUE,
        context |-> CHANGE_TURN(PLAY_POSITION(m.context, e, m.value), e, m.value)]
  ELSE Unchanged(m)

\* PLAYED in state X or O: the first transition whose cond holds, conds being
\* evaluated on the context before any action, the actions then run in order,
\* each on the context the previous one left.
OnPLAYED(m, e) ==
  IF IS_GAME_OVER(m.context, e, m.value)
  THEN [value |-> "GAME_OVER", changed |-> TRUE,
        context |-> ASSIGN_WINNER(PLAY_POSITION(m.context, e, m.value), e, m.value)]
  ELSE IF IS_VALID_PLAY(m.context, e, m.value)
  THEN [value |-> IF m.value = "X" THEN "O" ELSE "X", changed |-> TRUE,
        context |-> CHANGE_TURN(PLAY_POSITION(m.context, e, m.value), e, m.value)]
  ELSE Unchanged(m)

\* The machine with PLAYED also handled in GAME_OVER, as in the state of the
\* player who moved last.
Transition_PlayAfterOver(m, e) ==
  CASE m.value = "WAITING" /\ e.type = "GAME_STARTED" ->
         [value |-> "X", changed |-> TRUE, context |-> ASSIGN_O(m.context, e)]
    [] m.value \in {"X", "O"} /\ e.type = "PLAYED" -> OnPLAYED(m, e)
    [] m.value = "GAME_OVER" /\ e.type = "PLAYED" ->
         OnPLAYED([m EXCEPT !.value = m.context.client.turn], e)
    [] m.value = "GAME_OVER" /\ e.type = "RESTARTED" ->
         [value |-> "X", changed |-> TRUE, context |-> RESTARTED_ACTION(m.context)]
    [] OTHER -> Unchanged(m)

\* The machine with RESTARTED also handled in the turn states X and O.
Transition_RestartAnytime(m, e) ==
  CASE m.value = "WAITING" /\ e.type = "GAME_STARTED" ->
         [value |-> "X", changed |-> TRUE, context |-> ASSIGN_O(m.context, e)]
    [] m.value \in {"X", "O"} /\ e.type = "PLAYED" -> OnPLAYED(m, e)
    [] m.value \in {"X", "O", "GAME_OVER"} /\ e.type = "RESTARTED" ->
         [value |-> "X", changed |-> TRUE, context |-> RESTARTED_ACTION(m.context)]
    [] OTHER -> Unchanged(m)

\* The machine with GAME_STARTED also handled in the turn states X and O.
Transition_JoinAnytime(m, e) ==
  CASE m.value \in {"WAITING", "X", "O"} /\ e.type = "GAME_STARTED" ->
         [value |-> "X", changed |-> TRUE, context |-> ASSIGN_O(m.context, e)]
    [] m.value \in {"X", "O"} /\ e.type = "PLAYED" -> OnPLAYED(m, e)
    [] m.value = "GAME_OVER" /\ e.type = "RESTARTED" ->
         [value |-> "X", changed |-> TRUE, context |-> RESTARTED_ACTION(m.context)]
    [] OTHER -> Unchanged(m)

\* machine.transition(state, event): the `on` tables of the four state nodes.
Transition(m, e) ==
  CASE m.value = "WAITING" /\ e.type = "GAME_STARTED" ->
         [value |-> "X", changed |-> TRUE, context |-> ASSIGN_O(m.context, e)]
    [] m.value \in {"X", "O"} /\ e.type = "PLAYED" -> OnPLAYED(m, e)
    [] m.value = "GAME_OVER" /\ e.type = "RESTARTED" ->
         [value |-> "X", changed |-> TRUE, context |-> RESTARTED_ACTION(m.context)]
    [] OTHER -> Unchanged(m)

(* ---------------------- the server (226-324) -------------------------- *)

VARIABLES
  conn,     \* socket -> "new" | "connected" | "disconnected"
  rooms,    \* socket -> socket.rooms, the socket.io rooms the socket is in
  states,   \* the Map `states`: registered game id -> machine
  issued,   \* the identifiers uuid() has returned so far
  heap,     \* registered game id -> the Map instance its ctx.client.board is
  outbox,   \* what the handler that ran last emitted, in order
  last,     \* the handler that ran last and the socket it ran for
  pending,  \* the handlers suspended at `await socket.join(game)`
  inbox,    \* socket -> the emits on their way to its client, in order
  clients,  \* socket -> the State of the machine of its Game component
  app       \* the State of the machine of the local game's App, with its source

vars ==
  <<conn, rooms, states, issued, heap, outbox, last, pending, inbox, clients, app>>

\* The variables of the server and of its clients.
online == <<conn, rooms, states, issued, heap, outbox, last, pending, inbox, clients>>

\* No handler is suspended.
NoPending == [queue |-> << >>, draining |-> FALSE]

\* The step is of the server alone, a handler that runs to its end without
\* being suspended: the clients and what is on its way to them are left out.
ServerOnly == UNCHANGED <<pending, inbox, clients, app>>

\* The step of a suspended handler: the clients are left out.
NoClients == UNCHANGED <<inbox, clients, app>>

\* The sockets io.to(room) reaches: every socket that is in the room.
InRoom(rms, room) == {t \in AllSockets : room \in rms[t]}

\* Array.from(board.entries()): the pairs of the Map (their order left out).
Entries(board) == {<<position, board[position]>> : position \in DOMAIN board}

NoClient == [game |-> None, turn |-> None, board |-> {}, result |-> None]

\* One emit: the event, the room it addresses, the sockets that receive it
\* and its payload (client for STATE_CHANGE, id for USER_LEFT).
Emit(event, room, to, id, client) ==
  [event |-> event, room |-> room, to |-> to, id |-> id, client |-> client]

\* The onTransition listener of CREATE_GAME: io.to(game).emit('STATE_CHANGE',
\* {...state.context.client, board: Array.from(board.entries())}).
onTransition(game, m, rms) ==
  Emit("STATE_CHANGE", game, InRoom(rms, game), None,
       [m.context.client EXCEPT !.board = Entries(m.context.client.board)])

\* A set as a sequence, in one fixed order (the order a for-of visits it).
RECURSIVE SeqOfSet(_)
SeqOfSet(S) ==
  IF S = {} THEN << >>
  ELSE LET x == CHOOSE y \in S : TRUE IN <<x>> \o SeqOfSet(S \ {x})

\* interpreter.send(event) for every machine of `games`: the registry after
\* it. The interpreter computes the next State and then calls every
\* onTransition listener with it, whether or not a transition was taken.
SendAll(games, event) ==
  [g \in DOMAIN states |-> IF g \in games THEN Transition(states[g], event) ELSE states[g]]

\* The listeners called with the State before the event instead of after it.
SendAllEmits_Before(games, event, rms) ==
  LET order == SeqOfSet(games)
  IN  [i \in DOMAIN order |-> onTransition(order[i], states[order[i]], rms)]

\* The listeners' emits of SendAll, one per machine sent to.
SendAllEmits(games, event, rms) ==
  LET order == SeqOfSet(games)
  IN  [i \in DOMAIN order |-> onTransition(order[i], Transition(states[order[i]], event), rms)]

\* new Map(): an instance none of the contexts `held` refers to. Instances are
\* named 1, 2, ...; the name of an instance no registered machine's context
\* refers to any more is used again.
NewInstance_Shared(held) == 1

NewInstance(held) ==
  CHOOSE n \in 1..(Cardinality(held) + 1) :
    n \notin held /\ \A k \in 1..(n - 1) : k \in held

\* The event makes the machine run ACTION.RESTARTED, which calls initialState.
Allocates(m, event) == m.value = "GAME_OVER" /\ event.type = "RESTARTED"

\* The Map instances of the registered machines after interpreter.send(event)
\* for the machines of `order`, one after the other: the contexts that
\* initialState builds get a new Map, PLAY_POSITION sets in the one it has.
RECURSIVE SendAllHeap(_, _, _)
SendAllHeap(order, event, h) ==
  IF order = << >> THEN h
  ELSE LET g == Head(order)
           others == {h[k] : k \in (DOMAIN h) \ {g}}
       IN  SendAllHeap(Tail(order), event,
             IF Allocates(states[g], event)
             THEN [h EXCEPT ![g] = NewInstance(others)]
             ELSE h)

Init ==
  /\ conn = [s \in AllSockets |-> "new"]
  /\ rooms = [s \in AllSockets |-> {}]
  /\ states = << >>
  /\ issued = {}
  /\ heap = << >>
  /\ outbox = << >>
  /\ last = [type |-> "none", socket |-> None]
  /\ pending = NoPending
  /\ inbox = [s \in AllSockets |-> << >>]
  /\ clients = [s \in AllSockets |-> None]
  /\ app = None

\* io.on('connection'): a new socket, in the room named by its own id.
\* Sockets connect in the order of their names (ids are given on connection).
Connection(s) ==
  /\ conn[s] = "new"
  /\ \A i \in DOMAIN SocketNames : SocketNames[i] = s =>
       \A j \in 1..(i - 1) : conn[SocketNames[j]] # "new"
  /\ conn' = [conn EXCEPT ![s] = "connected"]
  /\ rooms' = [rooms EXCEPT ![s] = {s}]
  /\ outbox' = << >>
  /\ last' = [type |-> "connection", socket |-> s]
  /\ UNCHANGED <<states, issued, heap>>

\* socket.on('CREATE_GAME'): uuid() returns an identifier never returned
\* before; the started interpreter calls the listener with its initial State.
CREATE_GAME(s, game) ==
  /\ conn[s] = "connected"
  /\ game \notin issued
  /\ LET machine == createNewGameMachine(game, s)
           joined == [rooms EXCEPT ![s] = @ \cup {game}]
     IN  /\ issued' = issued \cup {game}
         /\ rooms' = joined
         /\ states' = [g \in (DOMAIN states) \cup {game} |->
                         IF g = game THEN machine ELSE states[g]]
         /\ heap' = [g \in (DOMAIN heap) \cup {game} |->
                       IF g = game THEN NewInstance({heap[k] : k \in DOMAIN heap})
                       ELSE heap[g]]
         /\ outbox' = <<onTransition(game, machine, joined)>>
  /\ last' = [type |-> "CREATE_GAME", socket |-> s]
  /\ UNCHANGED conn

\* The handler emitting with io.to(room) instead of socket.to(room).
DisconnectingEmits_ToAll(s) ==
  LET order == SeqOfSet(rooms[s] \ {s})
  IN  [i \in DOMAIN order |->
         Emit("USER_LEFT", order[i], InRoom(rooms, order[i]), s, NoClient)]

\* The 'disconnecting' handler of socket s and the socket leaving its rooms.
DisconnectingEmits(s) ==
  LET order == SeqOfSet(rooms[s] \ {s})
  IN  [i \in DOMAIN order |->
         Emit("USER_LEFT", order[i], InRoom(rooms, order[i]) \ {s}, s, NoClient)]

\* The disconnecting handler without states.delete(room).
Disconnecting_KeepRooms(s) ==
  /\ conn' = [conn EXCEPT ![s] = "disconnected"]
  /\ rooms' = [rooms EXCEPT ![s] = {}]
  /\ outbox' = DisconnectingEmits(s)
  /\ UNCHANGED <<states, heap, issued>>

Disconnecting(s) ==
  /\ conn' = [conn EXCEPT ![s] = "disconnected"]
  /\ rooms' = [rooms EXCEPT ![s] = {}]
  /\ states' = [g \in (DOMAIN states) \ rooms[s] |-> states[g]]
  /\ heap' = [g \in (DOMAIN heap) \ rooms[s] |-> heap[g]]
  /\ outbox' = DisconnectingEmits(s)
  /\ UNCHANGED issued

\* JOIN_GAME without the socket.disconnect() of the else branch.
JOIN_GAME_NoDisconnect(s, game) ==
  /\ conn[s] = "connected"
  /\ IF game \in DOMAIN states
     THEN LET joined == [rooms EXCEPT ![s] = @ \cup {game}]
              event == [type |-> "GAME_STARTED", O |-> s]
          IN  /\ rooms' = joined
              /\ states' = SendAll({game}, event)
              /\ heap' = SendAllHeap(SeqOfSet({game}), event, heap)
              /\ outbox' = SendAllEmits({game}, event, joined)
                             \o <<Emit("GAME_STARTED", game, InRoom(joined, game), None, NoClient)>>
              /\ UNCHANGED <<conn, issued>>
     ELSE /\ outbox' = << >>
          /\ UNCHANGED <<conn, rooms, states, heap, issued>>
  /\ last' = [type |-> "JOIN_GAME", socket |-> s]

\* socket.on('JOIN_GAME'): game is whatever string the client sent.
JOIN_GAME(s, game) ==
  /\ conn[s] = "connected"
  /\ IF game \in DOMAIN states
     THEN LET joined == [rooms EXCEPT ![s] = @ \cup {game}]
              event == [type |-> "GAME_STARTED", O |-> s]
          IN  /\ rooms' = joined
              /\ states' = SendAll({game}, event)
              /\ outbox' = SendAllEmits({game}, event, joined)
                             \o <<Emit("GAME_STARTED", game, InRoom(joined, game), None, NoClient)>>
              /\ heap' = SendAllHeap(SeqOfSet({game}), event, heap)
              /\ UNCHANGED <<conn, issued>>
     ELSE Disconnecting(s)
  /\ last' = [type |-> "JOIN_GAME", socket |-> s]

\* socket.on('PLAY'): sent to the machine of every room of the socket.
PLAY(s, position) ==
  /\ conn[s] = "connected"
  /\ LET games == rooms[s] \cap DOMAIN states
         event == [type |-> "PLAYED", player |-> s, position |-> position]
     IN  /\ states' = SendAll(games, event)
         /\ heap' = SendAllHeap(SeqOfSet(games), event, heap)
         /\ outbox' = SendAllEmits(games, event, rooms)
  /\ last' = [type |-> "PLAY", socket |-> s]
  /\ UNCHANGED <<conn, rooms, issued>>

\* socket.on('RESTARTED')
RESTARTED(s) ==
  /\ conn[s] = "connected"
  /\ LET games == (rooms[s] \ {s}) \cap DOMAIN states
         event == [type |-> "RESTARTED"]
     IN  /\ states' = SendAll(games, event)
         /\ heap' = SendAllHeap(SeqOfSet(games), event, heap)
         /\ outbox' = SendAllEmits(games, event, rooms)
  /\ last' = [type |-> "RESTARTED", socket |-> s]
  /\ UNCHANGED <<conn, rooms, issued>>

\* The client closes the connection (or the transport drops).
Disconnect(s) ==
  /\ conn[s] = "connected"
  /\ Disconnecting(s)
  /\ last' = [type |-> "disconnecting", socket |-> s]

\* The server's steps for the connections `sockets` of arbitrary clients,
\* with uuid() drawing from `games` and the clients sending any position of
\* `positions` and any identifier of `games`.
NextOn(sockets, games, positions) ==
  \/ \E s \in sockets : Connection(s) /\ ServerOnly
  \/ \E s \in sockets, game \in games : CREATE_GAME(s, game) /\ ServerOnly
  \/ \E s \in sockets, game \in games : JOIN_GAME(s, game) /\ ServerOnly
  \/ \E s \in sockets, position \in positions : PLAY(s, position) /\ ServerOnly
  \/ \E s \in sockets : RESTARTED(s) /\ ServerOnly
  \/ \E s \in sockets : Disconnect(s) /\ ServerOnly

NextServer == NextOn(Sockets, GameIds, ServerPositions)

\* Arbitrary clients: any intent from any connection at any time.
SpecServer == Init /\ [][NextServer]_vars

\* The socket has sent neither CREATE_GAME nor JOIN_GAME yet.
Fresh(s) == rooms[s] = {s}

\* The server's steps for the repository's clients (Game, 756-803): a
\* connection sends one CREATE_GAME or one JOIN_GAME, on connect, and PLAY,
\* RESTARTED or a disconnect at any time.
Next ==
  \/ \E s \in Clients : Connection(s) /\ ServerOnly
  \/ \E s \in Clients, game \in RoomIds : Fresh(s) /\ CREATE_GAME(s, game) /\ ServerOnly
  \/ \E s \in Clients, game \in RoomIds : Fresh(s) /\ JOIN_GAME(s, game) /\ ServerOnly
  \/ \E s \in Clients, position \in Position : PLAY(s, position) /\ ServerOnly
  \/ \E s \in Clients : RESTARTED(s) /\ ServerOnly
  \/ \E s \in Clients : Disconnect(s) /\ ServerOnly

Spec == Init /\ [][Next]_vars

\* The same clients, as many as play in several rooms at once.
NextRooms ==
  \/ \E s \in Peers : Connection(s) /\ ServerOnly
  \/ \E s \in Peers, game \in PairIds : Fresh(s) /\ CREATE_GAME(s, game) /\ ServerOnly
  \/ \E s \in Peers, game \in PairIds : Fresh(s) /\ JOIN_GAME(s, game) /\ ServerOnly
  \/ \E s \in Peers : \E position \in RoomPositions(s) : PLAY(s, position) /\ ServerOnly
  \/ \E s \in Peers : RESTARTED(s) /\ ServerOnly
  \/ \E s \in Peers : Disconnect(s) /\ ServerOnly

SpecRooms == Init /\ [][NextRooms]_vars

NextMulti == NextOn(MultiSockets, MultiGameIds, MultiPositions)

\* Arbitrary clients that create and join several rooms.
SpecMulti == Init /\ [][NextMulti]_vars

NextPayload == NextOn(PayloadSockets, PayloadGameIds, Payloads)

\* Arbitrary clients that send any integer as the position of a PLAY.
SpecPayload == Init /\ [][NextPayload]_vars

(* ------------------- the clients (349-526, 756-803) -------------------- *)

\* new Map(ctx.board) of the STATE_CHANGE listener (777): the Map of the
\* pairs the snapshot carries, a later pair replacing an earlier one of the
\* same key.
NewMap(entries) ==
  [position \in {pair[1] : pair \in entries} |->
     (CHOOSE pair \in entries : pair[1] = position)[2]]

\* defaultContext(me); socket is whether ctx.socket is some.
defaultContext(me) ==
  [socket |-> FALSE, me |-> me,
   server |-> [turn |-> "X", game |-> "", board |-> EmptyBoard, result |-> None]]

\* ASSIGN_STATE taking turn and result from the snapshot but not the board.
ASSIGN_STATE_KeepBoard(ctx, e) ==
  [ctx EXCEPT !.server = [e.context EXCEPT !.board = ctx.server.board]]

\* ACTION.ASSIGN_STATE
ASSIGN_STATE(ctx, e) == [ctx EXCEPT !.server = e.context]

\* ACTION.ASSIGN_SOCKET
ASSIGN_SOCKET(ctx, e) == [ctx EXCEPT !.socket = TRUE]

\* The client machine with the cond on the turn tried before the cond on the
\* result.
ClientTransition_TurnFirst(c, e) ==
  CASE e.type = "STATE_CHANGED" /\ ~c.context.socket ->
         [c EXCEPT !.context = ASSIGN_STATE(c.context, e)]
    [] e.type = "STATE_CHANGED" /\ c.context.socket /\ c.context.me = e.context.turn ->
         [value |-> "MY_TURN", context |-> ASSIGN_STATE(c.context, e)]
    [] e.type = "STATE_CHANGED" /\ c.context.socket /\ c.context.me # e.context.turn
         /\ e.context.result # None ->
         [value |-> "GAME_OVER", context |-> ASSIGN_STATE(c.context, e)]
    [] e.type = "STATE_CHANGED" /\ c.context.socket /\ c.context.me # e.context.turn
         /\ e.context.result = None ->
         [value |-> "NOT_MY_TURN", context |-> ASSIGN_STATE(c.context, e)]
    [] e.type = "GAME_STARTED" /\ c.value = "WAITING" ->
         [value |-> IF c.context.me = "X" THEN "MY_TURN" ELSE "NOT_MY_TURN",
          context |-> ASSIGN_SOCKET(c.context, e)]
    [] OTHER -> c

\* The State of the client machine after an event: the root `on` table for
\* STATE_CHANGED, the WAITING node's for GAME_STARTED. PLAYED and RESTARTED
\* only emit and leave the State as it is.
ClientTransition(c, e) ==
  CASE e.type = "STATE_CHANGED" /\ ~c.context.socket ->
         [c EXCEPT !.context = ASSIGN_STATE(c.context, e)]
    [] e.type = "STATE_CHANGED" /\ c.context.socket /\ e.context.result # None ->
         [value |-> "GAME_OVER", context |-> ASSIGN_STATE(c.context, e)]
    [] e.type = "STATE_CHANGED" /\ c.context.socket /\ e.context.result = None
         /\ c.context.me = e.context.turn ->
         [value |-> "MY_TURN", context |-> ASSIGN_STATE(c.context, e)]
    [] e.type = "STATE_CHANGED" /\ c.context.socket /\ e.context.result = None
         /\ c.context.me # e.context.turn ->
         [value |-> "NOT_MY_TURN", context |-> ASSIGN_STATE(c.context, e)]
    [] e.type = "GAME_STARTED" /\ c.value = "WAITING" ->
         [value |-> IF c.context.me = "X" THEN "MY_TURN" ELSE "NOT_MY_TURN",
          context |-> ASSIGN_SOCKET(c.context, e)]
    [] OTHER -> c

\* The event the Game component sends its machine for an emit it receives
\* (768-784); USER_LEFT calls props.onDisconnected() and sends nothing.
EventOf(emit) ==
  CASE emit.event = "STATE_CHANGE" ->
         [type |-> "STATE_CHANGED",
          context |-> [emit.client EXCEPT !.board = NewMap(emit.client.board)]]
    [] emit.event = "GAME_STARTED" -> [type |-> "GAME_STARTED"]
    [] OTHER -> [type |-> "none"]

\* The emits of `box` addressed to socket s, in order.
RECURSIVE EmitsTo(_, _)
EmitsTo(box, s) ==
  IF box = << >> THEN << >>
  ELSE IF s \in Head(box).to THEN <<Head(box)>> \o EmitsTo(Tail(box), s)
  ELSE EmitsTo(Tail(box), s)

\* The step's emits are on their way to the clients they are addressed to;
\* what was on its way to a connection that is closed is dropped.
Posted ==
  /\ inbox' = [s \in AllSockets |->
                 IF conn'[s] = "connected" THEN inbox[s] \o EmitsTo(outbox', s) ELSE << >>]
  /\ \A s \in AllSockets : Len(inbox'[s]) <= MaxInFlight

\* Game is mounted for 'new game' (me is X) or for 'join' (me is O) and its
\* socket connects.
Mount(s, me) ==
  /\ Connection(s)
  /\ clients' = [clients EXCEPT ![s] = [value |-> "WAITING", context |-> defaultContext(me)]]
  /\ Posted
  /\ UNCHANGED <<pending, app>>

\* A handler of the server runs for a packet of socket s.
Handled(s) ==
  /\ Posted
  /\ UNCHANGED <<pending, clients, app>>

\* The client of socket s takes the next emit that is on its way to it.
Receive(s) ==
  /\ conn[s] = "connected"
  /\ inbox[s] # << >>
  /\ clients' = [clients EXCEPT ![s] = ClientTransition(@, EventOf(Head(inbox[s])))]
  /\ inbox' = [inbox EXCEPT ![s] = Tail(@)]
  /\ UNCHANGED <<conn, rooms, states, issued, heap, outbox, last, pending, app>>

\* The server and the repository's clients: a client sends CREATE_GAME or
\* JOIN_GAME once, on connect, as it was mounted; PLAY, RESTARTED and the
\* disconnect reach the server at any time.
NextClients ==
  \/ \E s \in ViewClients, me \in Player : Mount(s, me)
  \/ \E s \in ViewClients, game \in ViewRoomIds :
       /\ Fresh(s) /\ clients[s].context.me = "X"
       /\ CREATE_GAME(s, game) /\ Handled(s)
  \/ \E s \in ViewClients, game \in ViewRoomIds :
       /\ Fresh(s) /\ clients[s].context.me = "O"
       /\ JOIN_GAME(s, game) /\ Handled(s)
  \/ \E s \in ViewClients, position \in ViewPositions : PLAY(s, position) /\ Handled(s)
  \/ \E s \in ViewClients : RESTARTED(s) /\ Handled(s)
  \/ \E s \in ViewClients : Disconnect(s) /\ Handled(s)
  \/ \E s \in ViewClients : Receive(s)

SpecClients == Init /\ [][NextClients]_vars

(* ------------- the handlers suspended at their await (239-276) --------- *)

AsyncPositions == 0..MaxAsyncPosition

\* `await socket.join(game)`: the in-memory adapter joins at once and returns
\* nothing, so the rest of the handler is a promise job. socket.io runs the
\* handler of every packet in a process.nextTick callback of its own, and
\* Node runs the nextTick callbacks that are queued before the promise jobs:
\* the handlers of the packets that one read of s's connection delivered all
\* run up to their await before the first of them is resumed. Nothing of
\* another connection runs in between.
InTurn(s) ==
  /\ conn[s] = "connected"
  /\ ~pending.draining
  /\ pending.queue # << >> => pending.queue[1].socket = s

\* The handler stops at its await; what follows it is queued.
Suspend(s, type, game) ==
  /\ Len(pending.queue) < MaxPending
  /\ pending' = [pending EXCEPT !.queue =
                   Append(@, [socket |-> s, type |-> type, game |-> game, machine |-> << >>])]

\* The suspended handlers after the first of them has been resumed.
Resumed(queue) == [queue |-> queue, draining |-> queue # << >>]

\* A suspended JOIN_GAME holds the interpreter it read from `states`
\* (const machine, 264), also after states.delete(room) has removed it:
\* the suspended handlers with the interpreters that socket s's disconnecting
\* handler takes out of the registry. `machine` is empty while the
\* interpreter is the registered one.
Orphaned(s) ==
  LET queue == pending.queue
  IN  [pending EXCEPT !.queue =
        [i \in DOMAIN queue |->
           IF /\ queue[i].type = "JOIN_GAME"
              /\ queue[i].machine = << >>
              /\ queue[i].game \in rooms[s] \cap DOMAIN states
           THEN [queue[i] EXCEPT !.machine = <<states[queue[i].game]>>]
           ELSE queue[i]]]

\* socket.on('CREATE_GAME') up to its await (241-245).
CREATE_GAME_Await(s, game) ==
  /\ InTurn(s)
  /\ game \notin issued
  /\ issued' = issued \cup {game}
  /\ rooms' = [rooms EXCEPT ![s] = @ \cup {game}]
  /\ Suspend(s, "CREATE_GAME", game)
  /\ outbox' = << >>
  /\ last' = [type |-> "await", socket |-> s]
  /\ UNCHANGED <<conn, states, heap>>

\* socket.on('CREATE_GAME') after its await (247-258).
CREATE_GAME_Resume ==
  /\ pending.queue # << >>
  /\ pending.queue[1].type = "CREATE_GAME"
  /\ LET k == pending.queue[1]
         machine == createNewGameMachine(k.game, k.socket)
     IN  /\ states' = [g \in (DOMAIN states) \cup {k.game} |->
                         IF g = k.game THEN machine ELSE states[g]]
         /\ heap' = [g \in (DOMAIN heap) \cup {k.game} |->
                       IF g = k.game THEN NewInstance({heap[h] : h \in DOMAIN heap})
                       ELSE heap[g]]
         /\ outbox' = <<onTransition(k.game, machine, rooms)>>
         /\ last' = [type |-> "CREATE_GAME", socket |-> k.socket]
  /\ pending' = Resumed(Tail(pending.queue))
  /\ UNCHANGED <<conn, rooms, issued>>

\* socket.on('JOIN_GAME') up to its await, or to its end in the else branch
\* (262-275).
JOIN_GAME_Await(s, game) ==
  /\ InTurn(s)
  /\ IF game \in DOMAIN states
     THEN /\ rooms' = [rooms EXCEPT ![s] = @ \cup {game}]
          /\ Suspend(s, "JOIN_GAME", game)
          /\ outbox' = << >>
          /\ last' = [type |-> "await", socket |-> s]
          /\ UNCHANGED <<conn, states, heap, issued>>
     ELSE /\ Disconnecting(s)
          /\ pending' = Orphaned(s)
          /\ last' = [type |-> "JOIN_GAME", socket |-> s]

\* socket.on('JOIN_GAME') after its await (269-270): machine.send on the
\* interpreter the handler read before the await, then the GAME_STARTED emit.
JOIN_GAME_Resume ==
  /\ pending.queue # << >>
  /\ pending.queue[1].type = "JOIN_GAME"
  /\ LET k == pending.queue[1]
         event == [type |-> "GAME_STARTED", O |-> k.socket]
         started == Emit("GAME_STARTED", k.game, InRoom(rooms, k.game), None, NoClient)
         rest == Tail(pending.queue)
     IN  IF k.machine = << >>
         THEN /\ states' = SendAll({k.game}, event)
              /\ heap' = SendAllHeap(SeqOfSet({k.game}), event, heap)
              /\ outbox' = SendAllEmits({k.game}, event, rooms) \o <<started>>
              /\ pending' = Resumed(rest)
         ELSE LET machine == Transition(k.machine[1], event)
              IN  /\ outbox' = <<onTransition(k.game, machine, rooms), started>>
                  /\ pending' = Resumed(
                       [i \in DOMAIN rest |->
                          IF rest[i].type = "JOIN_GAME" /\ rest[i].game = k.game
                          THEN [rest[i] EXCEPT !.machine = <<machine>>]
                          ELSE rest[i]])
                  /\ UNCHANGED <<states, heap>>
  /\ last' = [type |-> "JOIN_GAME", socket |-> pending.queue[1].socket]
  /\ UNCHANGED <<conn, rooms, issued>>

\* The server's steps with the handlers of one connection's packets
\* interleaved as the event loop interleaves them. A connection's own close
\* is handled when it is read, before any handler that is still queued.
NextAsync ==
  \/ \E s \in AsyncSockets : pending.queue = << >> /\ Connection(s) /\ ServerOnly
  \/ \E s \in AsyncSockets, game \in AsyncGameIds : CREATE_GAME_Await(s, game) /\ NoClients
  \/ CREATE_GAME_Resume /\ NoClients
  \/ \E s \in AsyncSockets, game \in AsyncGameIds : JOIN_GAME_Await(s, game) /\ NoClients
  \/ JOIN_GAME_Resume /\ NoClients
  \/ \E s \in AsyncSockets, position \in AsyncPositions :
       InTurn(s) /\ PLAY(s, position) /\ ServerOnly
  \/ \E s \in AsyncSockets : InTurn(s) /\ RESTARTED(s) /\ ServerOnly
  \/ \E s \in AsyncSockets : pending.queue = << >> /\ Disconnect(s) /\ ServerOnly

SpecAsync == Init /\ [][NextAsync]_vars

(* ------------- the local game (src/unnamed/part_001, part_000) --------- *)

\* Option of fp-ts for the local games: none, some(v), isSome.
none == << >>

some(v) == <<v>>

isSome(option) == option # << >>

Coordinate == 1..3

Coordinates == [row : Coordinate, column : Coordinate]

\* ResultType, the lines in the order resultOfMatchScore tests them.
LineTypes ==
  <<"Column1", "Column2", "Column3", "Row1", "Row2", "Row3", "Diagonal1", "Diagonal2">>

ResultType == Range(LineTypes) \cup {"Draw"}

Playable == [kind |-> "Playable"]

Played(player) == [kind |-> "Played", player |-> player]

\* DEFAULT_CONTEXT; the board array is modelled by the state of each of its
\* nine cells.
DEFAULT_CONTEXT ==
  [result |-> none,
   matchScore |-> [type \in ResultType |-> none],
   board |-> [cell \in Coordinates |-> Playable]]

\* resultOfMatchScore with the lines tested last to first.
resultOfMatchScore_LastLine(matchScore) ==
  LET full == {i \in DOMAIN LineTypes :
                 isSome(matchScore[LineTypes[i]]) /\ matchScore[LineTypes[i]][1].count = 3}
  IN  IF full # {}
      THEN LET i == CHOOSE j \in full : \A k \in full : k <= j
           IN  some([type |-> LineTypes[i], player |-> matchScore[LineTypes[i]][1].player])
      ELSE IF isSome(matchScore["Draw"]) /\ matchScore["Draw"][1].count = 9
      THEN some([type |-> "Draw"])
      ELSE none

\* resultOfMatchScore testing the Draw counter before the lines.
resultOfMatchScore_DrawFirst(matchScore) ==
  LET full == {i \in DOMAIN LineTypes :
                 isSome(matchScore[LineTypes[i]]) /\ matchScore[LineTypes[i]][1].count = 3}
  IN  IF isSome(matchScore["Draw"]) /\ matchScore["Draw"][1].count = 9
      THEN some([type |-> "Draw"])
      ELSE IF full # {}
      THEN LET i == CHOOSE j \in full : \A k \in full : j <= k
           IN  some([type |-> LineTypes[i], player |-> matchScore[LineTypes[i]][1].player])
      ELSE none

\* resultOfMatchScore: the first branch of the if chain whose test holds.
resultOfMatchScore(matchScore) ==
  LET full == {i \in DOMAIN LineTypes :
                 isSome(matchScore[LineTypes[i]]) /\ matchScore[LineTypes[i]][1].count = 3}
  IN  IF full # {}
      THEN LET i == CHOOSE j \in full : \A k \in full : j <= k
           IN  some([type |-> LineTypes[i], player |-> matchScore[LineTypes[i]][1].player])
      ELSE IF isSome(matchScore["Draw"]) /\ matchScore["Draw"][1].count = 9
      THEN some([type |-> "Draw"])
      ELSE none

resultTypeOfCoordinates(coordinates) ==
  CASE coordinates.column = 1 /\ coordinates.row = 1 -> <<"Column1", "Row1", "Diagonal1", "Draw">>
    [] coordinates.column = 1 /\ coordinates.row = 2 -> <<"Column1", "Row2", "Draw">>
    [] coordinates.column = 1 /\ coordinates.row = 3 -> <<"Column1", "Row3", "Diagonal2", "Draw">>
    [] coordinates.column = 2 /\ coordinates.row = 1 -> <<"Column2", "Row1", "Draw">>
    [] coordinates.column = 2 /\ coordinates.row = 2 ->
         <<"Column2", "Row2", "Diagonal1", "Diagonal2", "Draw">>
    [] coordinates.column = 2 /\ coordinates.row = 3 -> <<"Column2", "Row3", "Draw">>
    [] coordinates.column = 3 /\ coordinates.row = 1 -> <<"Column3", "Row1", "Diagonal2", "Draw">>
    [] coordinates.column = 3 /\ coordinates.row = 2 -> <<"Column3", "Row2", "Draw">>
    [] coordinates.column = 3 /\ coordinates.row = 3 -> <<"Column3", "Row3", "Diagonal1", "Draw">>
    [] OTHER -> << >>

\* CONDITIONS.IS_DONE
IS_DONE(ctx) == isSome(ctx.result)

\* CONDITIONS.IS_VALID_PLAY of the local game: board.find(...) finds a cell.
Local_IS_VALID_PLAY(ctx, e) ==
  \E cell \in DOMAIN ctx.board :
    /\ cell.column = e.payload.column
    /\ cell.row = e.payload.row
    /\ ctx.board[cell].kind = "Playable"

\* ACTIONS.ASSIGN_BOARD(player)
ASSIGN_BOARD(player, ctx, e) ==
  [ctx EXCEPT !.board =
    [cell \in DOMAIN ctx.board |->
       IF cell.column = e.payload.column /\ cell.row = e.payload.row
       THEN Played(player)
       ELSE ctx.board[cell]]]

\* The step of the reduce without its test of the previous player: every
\* play on a line counts for the player who makes it.
Counted_NoPlayerTest(previous, curr, player) ==
  IF ~isSome(previous) THEN some([player |-> player, count |-> 1])
  ELSE some([player |-> player, count |-> previous[1].count + 1])

\* The reducer of ASSIGN_MATCH_SCORE: the counter of one line (or of Draw)
\* after a play of `player` on it.
Counted(previous, curr, player) ==
  IF ~isSome(previous) THEN some([player |-> player, count |-> 1])
  ELSE IF curr = "Draw" \/ previous[1].player = player
  THEN some([player |-> player, count |-> previous[1].count + 1])
  ELSE some(previous[1])

\* oldAcc.reduce(..., ctx.matchScore)
RECURSIVE ReduceScore(_, _, _)
ReduceScore(types, acc, player) ==
  IF types = << >> THEN acc
  ELSE ReduceScore(Tail(types),
                   [acc EXCEPT ![Head(types)] = Counted(acc[Head(types)], Head(types), player)],
                   player)

\* ACTIONS.ASSIGN_MATCH_SCORE(player)
ASSIGN_MATCH_SCORE(player, ctx, e) ==
  LET acc == ReduceScore(resultTypeOfCoordinates(e.payload), ctx.matchScore, player)
  IN  [ctx EXCEPT !.result = resultOfMatchScore(acc), !.matchScore = acc]

\* A machine whose turn states have no eventless transition to DONE.
Settled_Never(m) == m

\* The `always` transition of X and of O: to DONE when IS_DONE holds of the
\* context the event's actions left.
Settled(m) == IF m.value \in {"X", "O"} /\ IS_DONE(m.context) THEN [m EXCEPT !.value = "DONE"] ELSE m

\* The machine without the cond of its PLAYED transitions.
LocalTransition_NoGuard(m, e) ==
  CASE m.value \in {"X", "O"} /\ e.type = "PLAYED" ->
         Settled([value |-> IF m.value = "X" THEN "O" ELSE "X",
                  context |-> ASSIGN_BOARD(m.value, ASSIGN_MATCH_SCORE(m.value, m.context, e), e)])
    [] m.value = "DONE" /\ e.type = "RESTARTED" ->
         Settled([value |-> "X", context |-> DEFAULT_CONTEXT])
    [] OTHER -> m

\* The machine with a RESTARTED that clears the board and the result but
\* keeps the line and draw counters.
LocalTransition_RestartKeepsScore(m, e) ==
  CASE m.value \in {"X", "O"} /\ e.type = "PLAYED" /\ Local_IS_VALID_PLAY(m.context, e) ->
         Settled([value |-> IF m.value = "X" THEN "O" ELSE "X",
                  context |-> ASSIGN_BOARD(m.value, ASSIGN_MATCH_SCORE(m.value, m.context, e), e)])
    [] m.value = "DONE" /\ e.type = "RESTARTED" ->
         Settled([value |-> "X",
                  context |-> [DEFAULT_CONTEXT EXCEPT !.matchScore = m.context.matchScore]])
    [] OTHER -> m

\* The machine whose PLAYED transitions target the state they leave.
LocalTransition_SameTurn(m, e) ==
  CASE m.value \in {"X", "O"} /\ e.type = "PLAYED" /\ Local_IS_VALID_PLAY(m.context, e) ->
         Settled([value |-> m.value,
                  context |-> ASSIGN_BOARD(m.value, ASSIGN_MATCH_SCORE(m.value, m.context, e), e)])
    [] m.value = "DONE" /\ e.type = "RESTARTED" ->
         Settled([value |-> "X", context |-> DEFAULT_CONTEXT])
    [] OTHER -> m

\* The machine of the local game (256-304): the State after an event.
LocalTransition(m, e) ==
  CASE m.value \in {"X", "O"} /\ e.type = "PLAYED" /\ Local_IS_VALID_PLAY(m.context, e) ->
         Settled([value |-> IF m.value = "X" THEN "O" ELSE "X",
                  context |-> ASSIGN_BOARD(m.value, ASSIGN_MATCH_SCORE(m.value, m.context, e), e)])
    [] m.value = "DONE" /\ e.type = "RESTARTED" ->
         Settled([value |-> "X", context |-> DEFAULT_CONTEXT])
    [] OTHER -> m

(* ------------ the local game of example1 (frontend/src/App.tsx) -------- *)

\* ResultType of example1, the lines in the order resultOfAccumulator tests
\* them.
Ex1_LineTypes == <<"Col1", "Col2", "Col3", "Row1", "Row2", "Row3", "Dia1", "Dia2">>

Ex1_ResultType == Range(Ex1_LineTypes) \cup {"Draw"}

\* Action: { kind: 'Click' } | { kind: 'Played', player }
Ex1_Click == [kind |-> "Click"]

\* DEFAULT_CONTEXT of example1 (192-253)
Ex1_DEFAULT_CONTEXT ==
  [result |-> none,
   turn |-> "X",
   accumulators |-> [type \in Ex1_ResultType |-> none],
   board |-> [cell \in Coordinates |-> Ex1_Click]]

resultOfAccumulator(accumulator) ==
  LET full == {i \in DOMAIN Ex1_LineTypes :
                 /\ isSome(accumulator[Ex1_LineTypes[i]])
                 /\ accumulator[Ex1_LineTypes[i]][1].count = 3}
  IN  IF full # {}
      THEN LET i == CHOOSE j \in full : \A k \in full : j <= k
           IN  some([result |-> Ex1_LineTypes[i],
                     player |-> accumulator[Ex1_LineTypes[i]][1].player])
      ELSE IF isSome(accumulator["Draw"]) /\ accumulator["Draw"][1].count = 9
      THEN some([result |-> "Draw"])
      ELSE none

\* resultTypeOfCoordinates of example1 (108-130)
Ex1_resultTypeOfCoordinates(coordinates) ==
  CASE coordinates.column = 1 /\ coordinates.row = 1 -> <<"Col1", "Row1", "Dia1", "Draw">>
    [] coordinates.column = 1 /\ coordinates.row = 2 -> <<"Col1", "Row2", "Draw">>
    [] coordinates.column = 1 /\ coordinates.row = 3 -> <<"Col1", "Row3", "Dia2", "Draw">>
    [] coordinates.column = 2 /\ coordinates.row = 1 -> <<"Col2", "Row1", "Draw">>
    [] coordinates.column = 2 /\ coordinates.row = 2 -> <<"Col2", "Row2", "Dia1", "Dia2", "Draw">>
    [] coordinates.column = 2 /\ coordinates.row = 3 -> <<"Col2", "Row3", "Draw">>
    [] coordinates.column = 3 /\ coordinates.row = 1 -> <<"Col3", "Row1", "Dia2", "Draw">>
    [] coordinates.column = 3 /\ coordinates.row = 2 -> <<"Col3", "Row2", "Draw">>
    [] coordinates.column = 3 /\ coordinates.row = 3 -> <<"Col3", "Row3", "Dia1", "Draw">>
    [] OTHER -> << >>

\* ACTIONS.ASSIGN_TURN
ASSIGN_TURN(ctx, e) == [ctx EXCEPT !.turn = IF ctx.turn = "X" THEN "O" ELSE "X"]

\* ACTIONS.ASSIGN_BOARD of example1
Ex1_ASSIGN_BOARD(ctx, e) ==
  [ctx EXCEPT !.board =
    [cell \in DOMAIN ctx.board |->
       IF cell.column = e.payload.column /\ cell.row = e.payload.row
       THEN Played(ctx.turn)
       ELSE ctx.board[cell]]]

\* ACTIONS.ASSIGN_ACC
ASSIGN_ACC(ctx, e) ==
  LET acc == ReduceScore(Ex1_resultTypeOfCoordinates(e.payload), ctx.accumulators, ctx.turn)
  IN  [ctx EXCEPT !.result = resultOfAccumulator(acc), !.accumulators = acc]

\* The '' transition of X and of O: to DONE when the result is some.
Ex1_Settled(m) ==
  IF m.value \in {"X", "O"} /\ isSome(m.context.result) THEN [m EXCEPT !.value = "DONE"] ELSE m

\* The machine of example1 (255-305): PLAYED has no cond and targets O from
\* X and from O; the player to move is ctx.turn.
Ex1_Transition(m, e) ==
  CASE m.value \in {"X", "O"} /\ e.type = "PLAYED" ->
         Ex1_Settled([value |-> "O",
                      context |-> ASSIGN_TURN(Ex1_ASSIGN_BOARD(ASSIGN_ACC(m.context, e), e), e)])
    [] m.value = "DONE" /\ e.type = "RESTART" ->
         Ex1_Settled([value |-> "X", context |-> Ex1_DEFAULT_CONTEXT])
    [] OTHER -> m

(* ------------------------- the two Apps, played ------------------------ *)

\* useMachine(machine): the initial State, of the one App and of the other.
LocalApp == [source |-> "part_001", state |-> [value |-> "X", context |-> DEFAULT_CONTEXT]]

Ex1_App == [source |-> "example1", state |-> [value |-> "X", context |-> Ex1_DEFAULT_CONTEXT]]

\* One of the two Apps has been opened; no server and no client is involved.
InitLocal ==
  /\ Init!1 /\ Init!2 /\ Init!3 /\ Init!4 /\ Init!5 /\ Init!6 /\ Init!7
  /\ Init!8 /\ Init!9 /\ Init!10
  /\ app \in {LocalApp, Ex1_App}

\* The onClick of a cell's div in part_001 (373-375): every cell sends PLAYED.
LocalClick(cell) ==
  /\ app.source = "part_001"
  /\ app' = [app EXCEPT !.state =
               LocalTransition(@, [type |-> "PLAYED",
                                   payload |-> [row |-> cell.row, column |-> cell.column]])]

\* The onClick of the restart button of part_001 (406-426), which is
\* rendered when the result is some.
LocalRestart ==
  /\ app.source = "part_001"
  /\ isSome(app.state.context.result)
  /\ app' = [app EXCEPT !.state = LocalTransition(@, [type |-> "RESTARTED"])]

\* The cell's onClick of example1 without the test of the cell's action.
Ex1_CellClick_NoTest(cell) ==
  /\ app.source = "example1"
  /\ app' = [app EXCEPT !.state =
               Ex1_Transition(@, [type |-> "PLAYED",
                                  payload |-> [row |-> cell.row, column |-> cell.column]])]

\* The onClick of a cell's div in example1 (378-382): PLAYED is sent when the
\* cell's action is Click.
Ex1_CellClick(cell) ==
  /\ app.source = "example1"
  /\ app' = [app EXCEPT !.state =
               IF @.context.board[cell].kind = "Click"
               THEN Ex1_Transition(@, [type |-> "PLAYED",
                                       payload |-> [row |-> cell.row, column |-> cell.column]])
               ELSE @]

\* The onClick of the restart button of example1 (413-433).
Ex1_Restart ==
  /\ app.source = "example1"
  /\ isSome(app.state.context.result)
  /\ app' = [app EXCEPT !.state = Ex1_Transition(@, [type |-> "RESTART"])]

\* The step is of the App alone; `last` tells the handler that ran.
AppOnly(type) ==
  /\ last' = [type |-> type, socket |-> None]
  /\ UNCHANGED <<conn, rooms, states, issued, heap, outbox, pending, inbox, clients>>

NextLocal ==
  \/ \E cell \in Coordinates : LocalClick(cell) /\ AppOnly("onClick")
  \/ LocalRestart /\ AppOnly("restart")
  \/ \E cell \in Coordinates : Ex1_CellClick(cell) /\ AppOnly("onClick")
  \/ Ex1_Restart /\ AppOnly("restart")

\* The local game, in the one App or in the other.
SpecLocal == InitLocal /\ [][NextLocal]_vars

\* The cells the user of SpecClicks clicks.
ClickCells == {cell \in Coordinates : cell.row <= MaxClickRow}

\* The step is of the App alone; `last` tells the handler that ran and the
\* cell that was clicked.
Clicked(type, cell) ==
  /\ last' = [type |-> type, socket |-> None, cell |-> cell]
  /\ UNCHANGED <<conn, rooms, states, issued, heap, outbox, pending, inbox, clients>>

NextClicks ==
  \/ \E cell \in ClickCells : LocalClick(cell) /\ Clicked("onClick", cell)
  \/ LocalRestart /\ Clicked("restart", None)
  \/ \E cell \in ClickCells : Ex1_CellClick(cell) /\ Clicked("onClick", cell)
  \/ Ex1_Restart /\ Clicked("restart", None)

\* The local game with the clicks told, on the cells of ClickCells.
SpecClicks == InitLocal /\ [][NextClicks]_vars

(* ------------------------- reading the state -------------------------- *)

ClientOf(m) == m.context.client

BoardOf(m) == m.context.client.board

\* Player R holds the three positions of pattern i.
FullLine(board, i, R) ==
  \A position \in Range(winPatterns[i].positions) : BoardGet(board, position) = R

\* The patterns one player holds entirely.
CompletedLines(board) ==
  {i \in DOMAIN winPatterns : \E R \in Player : FullLine(board, i, R)}

FirstOf(lines) == CHOOSE i \in lines : \A j \in lines : i <= j

\* Rooms registered before and after a step.
Kept == (DOMAIN states) \cap (DOMAIN states')

\* It is the turn of connection s in machine m.
IsTurnOf(m, s) ==
  \/ m.value = "X" /\ s = m.context.X
  \/ m.value = "O" /\ s = m.context.O

\* The step is the RESTARTED handler acting on room g in GAME_OVER.
AcceptedRestart(g) ==
  /\ last'.type = "RESTARTED"
  /\ g \in rooms[last'.socket]
  /\ states[g].value = "GAME_OVER"

\* The step is the PLAY handler and g's machine took a transition on it.
AcceptedPlay(g) ==
  /\ last'.type = "PLAY"
  /\ g \in rooms[last'.socket]
  /\ states'[g].changed

(* ------------------------------ claims -------------------------------- *)

\* C1: a mark appears on a room's board only by a PLAY of the connection
\* whose turn it is: in state X the creator's connection (ctx.X) placing an
\* X, in state O the joiner's connection (ctx.O) placing an O.
C1_OnlyTheTurnPlayerPlays ==
  [][\A g \in Kept :
       \A position \in DOMAIN BoardOf(states'[g]) :
         BoardGet(BoardOf(states[g]), position) # BoardOf(states'[g])[position] =>
           /\ last'.type = "PLAY"
           /\ IsTurnOf(states[g], last'.socket)
           /\ BoardOf(states'[g])[position] = states[g].value]_vars

\* C1 witness: the joiner, a connection other than the creator, has just placed
\* the second mark, an O, in state O.
C1_Witness ==
  \E g \in DOMAIN states :
    /\ last.type = "PLAY" /\ states[g].changed
    /\ last.socket = states[g].context.O
    /\ states[g].context.O # states[g].context.X
    /\ states[g].value = "X"
    /\ \E a, b \in Position : BoardOf(states[g]) = (a :> "X") @@ (b :> "O")

\* C2: between restarts the board only grows: every entry stays with its
\* role, an accepted PLAY adds exactly one entry, and only an accepted
\* restart removes entries.
C2_BoardOnlyGrows ==
  [][\A g \in Kept :
       LET board == BoardOf(states[g])
           after == BoardOf(states'[g])
       IN  \/ AcceptedRestart(g)
           \/ /\ AcceptedPlay(g)
              /\ BoardSize(after) = BoardSize(board) + 1
              /\ \A position \in DOMAIN board : BoardGet(after, position) = board[position]
           \/ /\ ~AcceptedPlay(g)
              /\ after = board]_vars

\* C2 witness: an accepted PLAY has just added the fifth entry.
C2_Witness ==
  \E g \in DOMAIN states :
    /\ last.type = "PLAY" /\ g \in rooms[last.socket] /\ states[g].changed
    /\ BoardSize(BoardOf(states[g])) = 5

\* C3 (as amended): as soon as a player R holds a whole line the room is in
\* GAME_OVER, the result is the first, in the order of winPatterns, of the
\* lines R holds (the line itself when it is the only one) and the turn is
\* still R's; while the room is not in GAME_OVER no result is reported, and
\* a line is reported only when a player holds one.
C3_FirstCompletedLine ==
  \A g \in DOMAIN states :
    LET m == states[g]
        lines == CompletedLines(BoardOf(m))
    IN  /\ lines # {} =>
              /\ m.value = "GAME_OVER"
              /\ ClientOf(m).result = winPatterns[FirstOf(lines)].result
              /\ \A i \in lines : FullLine(BoardOf(m), i, ClientOf(m).turn)
        /\ m.value # "GAME_OVER" => ClientOf(m).result = None
        /\ ClientOf(m).result \notin {None, "Draw"} => lines # {}

\* C3 witness: the move just accepted completed two lines at once.
C3_Witness ==
  \E g \in DOMAIN states :
    /\ last.type = "PLAY" /\ states[g].changed
    /\ states[g].value = "GAME_OVER"
    /\ Cardinality(CompletedLines(BoardOf(states[g]))) = 2

\* C3 as stated: whenever a player R holds all three positions of a line L
\* the room is in GAME_OVER with result L and winner R, and no result is
\* reported before.
C3_EveryCompletedLine ==
  \A g \in DOMAIN states :
    LET m == states[g]
    IN  /\ \A i \in DOMAIN winPatterns, R \in Player :
              FullLine(BoardOf(m), i, R) =>
                /\ m.value = "GAME_OVER"
                /\ ClientOf(m).result = winPatterns[i].result
                /\ ClientOf(m).turn = R
        /\ m.value # "GAME_OVER" => ClientOf(m).result = None

\* C4: a board with all 9 positions occupied and no line completed is a
\* draw: the result is Draw and the room is in GAME_OVER.
C4_FullBoardIsDraw ==
  \A g \in DOMAIN states :
    (BoardSize(BoardOf(states[g])) = 9 /\ CompletedLines(BoardOf(states[g])) = {}) =>
      /\ states[g].value = "GAME_OVER"
      /\ ClientOf(states[g]).result = "Draw"

\* C5: an accepted PLAY places the mark of the role whose turn it is and
\* either ends the game, the turn staying, or flips turn and state to the
\* other role; a join and a restart give the turn to X on an empty board.
C5_TurnsAlternate ==
  [][\A g \in Kept :
       LET m == states[g]
           n == states'[g]
       IN  /\ AcceptedPlay(g) =>
                /\ m.value \in Player /\ ClientOf(m).turn = m.value
                /\ \E position \in Position \ DOMAIN BoardOf(m) :
                     BoardOf(n) = BoardSet(BoardOf(m), position, ClientOf(m).turn)
                /\ \/ n.value = "GAME_OVER" /\ ClientOf(n).turn = ClientOf(m).turn
                   \/ /\ n.value \in Player \ {m.value}
                      /\ ClientOf(n).turn = n.value
           /\ (n.value # m.value /\ ~AcceptedPlay(g)) =>
                /\ m.value \in {"WAITING", "GAME_OVER"}
                /\ n.value = "X" /\ ClientOf(n).turn = "X"
                /\ BoardOf(n) = EmptyBoard]_vars

\* C5 witness: X, O and X have played in turn and it is O's turn.
C5_Witness ==
  \E g \in DOMAIN states :
    /\ last.type = "PLAY" /\ states[g].changed
    /\ states[g].value = "O" /\ ClientOf(states[g]).turn = "O"
    /\ BoardSize(BoardOf(states[g])) = 3

\* C6: once a room has a result, its board, turn, result and state stay as
\* they are (every PLAY is rejected) until a restart is accepted.
C6_ResultIsFinal ==
  [][\A g \in Kept :
       ClientOf(states[g]).result # None =>
         \/ AcceptedRestart(g)
         \/ /\ states'[g].context = states[g].context
            /\ states'[g].value = states[g].value
            /\ (last'.type = "PLAY" /\ g \in rooms[last'.socket]) => ~states'[g].changed]_vars

\* C6 witness: a PLAY of the player who did not make the last move has just
\* been rejected in a room that has a result.
C6_Witness ==
  \E g \in DOMAIN states :
    /\ last.type = "PLAY" /\ g \in rooms[last.socket]
    /\ ~states[g].changed
    /\ states[g].value = "GAME_OVER"
    /\ ClientOf(states[g]).result \in Result
    /\ ClientOf(states[g]).turn = "X"
    /\ last.socket = states[g].context.O
    /\ last.socket # states[g].context.X

\* C7: a PLAY at an occupied position, or from a connection whose turn it is
\* not, changes nothing: the room's board, turn, result, participants and
\* state, the registry and the connections stay as they were.
C7_RejectedPlayChangesNothing ==
  [][last'.type = "PLAY" =>
       \A position \in Position :
         PLAY(last'.socket, position) =>
           \A g \in rooms[last'.socket] \cap DOMAIN states :
             (\/ BoardHas(BoardOf(states[g]), position)
              \/ ~IsTurnOf(states[g], last'.socket)) =>
               /\ g \in DOMAIN states'
               /\ states'[g].context = states[g].context
               /\ states'[g].value = states[g].value
               /\ DOMAIN states' = DOMAIN states
               /\ UNCHANGED <<conn, rooms, issued>>]_vars

\* C7 witness: the player to move has just had a PLAY rejected (the
\* position was occupied) in a room with marks on the board.
C7_Witness ==
  \E g \in DOMAIN states :
    /\ last.type = "PLAY" /\ g \in rooms[last.socket]
    /\ ~states[g].changed
    /\ states[g].value \in Player
    /\ IsTurnOf(states[g], last.socket)
    /\ BoardSize(BoardOf(states[g])) = 2

\* The handler that ran last was an intent that no room accepted: a PLAY or
\* RESTARTED on which no machine of the sender's rooms took a transition,
\* or a JOIN_GAME of a registered room that was not WAITING.
RejectedIntent ==
  /\ last.type \in {"PLAY", "RESTARTED", "JOIN_GAME"}
  /\ conn[last.socket] = "connected"
  /\ \A g \in rooms[last.socket] \cap DOMAIN states : ~states[g].changed

\* C8: a rejected intent is silent: the handler emits nothing.
C8_RejectedIntentIsSilent == RejectedIntent => outbox = << >>

\* The STATE_CHANGE emits for room g among the emits of the last handler.
SnapshotsOf(box, g) ==
  {i \in DOMAIN box : box[i].event = "STATE_CHANGE" /\ box[i].room = g}

\* C9: a handler that makes a room's machine take a transition emits
\* exactly one STATE_CHANGE for that room, and it carries the board, turn
\* and result the transition left.
C9_OneSnapshotPerTransition ==
  [][\A g \in Kept :
       states'[g].value # states[g].value =>
         /\ Cardinality(SnapshotsOf(outbox', g)) = 1
         /\ \A i \in SnapshotsOf(outbox', g) :
              /\ outbox'[i].client.game = g
              /\ outbox'[i].client.board = Entries(BoardOf(states'[g]))
              /\ outbox'[i].client.turn = ClientOf(states'[g]).turn
              /\ outbox'[i].client.result = ClientOf(states'[g]).result]_vars

\* C9 witness: the move that has just ended a game was emitted with its
\* result.
C9_Witness ==
  \E g \in DOMAIN states :
    /\ last.type = "PLAY" /\ states[g].changed
    /\ states[g].value = "GAME_OVER"
    /\ Len(outbox) = 1
    /\ outbox[1].event = "STATE_CHANGE"
    /\ outbox[1].client.result = "Column2"

\* C10: a RESTARTED of either participant in GAME_OVER moves the room to X
\* with an empty board, no result and turn X, and keeps the game identifier
\* and both participants.
C10_RestartResets ==
  [][\A g \in Kept :
       (/\ last'.type = "RESTARTED"
        /\ last'.socket \in {states[g].context.X, states[g].context.O}
        /\ states[g].value = "GAME_OVER") =>
          /\ states'[g].value = "X"
          /\ states'[g].changed
          /\ BoardOf(states'[g]) = EmptyBoard
          /\ ClientOf(states'[g]).result = None
          /\ ClientOf(states'[g]).turn = "X"
          /\ ClientOf(states'[g]).game = ClientOf(states[g]).game
          /\ states'[g].context.X = states[g].context.X
          /\ states'[g].context.O = states[g].context.O
          /\ states[g].context.O # None]_vars

\* C10 witness: the joiner has just restarted a finished game.
C10_Witness ==
  \E g \in DOMAIN states :
    /\ last.type = "RESTARTED" /\ states[g].changed
    /\ last.socket = states[g].context.O
    /\ last.socket # states[g].context.X
    /\ states[g].value = "X"
    /\ BoardOf(states[g]) = EmptyBoard

\* C11: a RESTARTED sent while a room of the sender is not in GAME_OVER
\* (WAITING, X or O) leaves that room's board, turn, result, participants
\* and state, and the registry, as they were.
C11_EarlyRestartChangesNothing ==
  [][last'.type = "RESTARTED" =>
       /\ DOMAIN states' = DOMAIN states
       /\ \A g \in rooms[last'.socket] \cap DOMAIN states :
            states[g].value # "GAME_OVER" =>
              /\ states'[g].context = states[g].context
              /\ states'[g].value = states[g].value
              /\ ~states'[g].changed]_vars

\* C11 witness: a participant has just sent RESTARTED in a turn state with
\* two marks on the board, and the marks are still there.
C11_Witness ==
  \E g \in DOMAIN states :
    /\ last.type = "RESTARTED" /\ g \in rooms[last.socket]
    /\ last.socket \in {states[g].context.X, states[g].context.O}
    /\ ~states[g].changed
    /\ states[g].value = "X"
    /\ BoardSize(BoardOf(states[g])) = 2

\* C12: a JOIN_GAME naming a registered room in WAITING records the sender
\* as O, keeps the creator as X and moves the room to state X with turn X
\* and an empty board; and the PLAY accepted on the empty board that follows
\* is the creator's, placing an X.
C12_JoinStartsWithCreator ==
  [][\A g \in Kept :
       /\ (/\ last'.type = "JOIN_GAME"
           /\ states[g].value = "WAITING"
           /\ JOIN_GAME(last'.socket, g)) =>
             /\ states'[g].value = "X"
             /\ states'[g].changed
             /\ states'[g].context.O = last'.socket
             /\ states'[g].context.X = states[g].context.X
             /\ ClientOf(states'[g]).turn = "X"
             /\ ClientOf(states'[g]).result = None
             /\ BoardOf(states'[g]) = EmptyBoard
       /\ (AcceptedPlay(g) /\ BoardOf(states[g]) = EmptyBoard) =>
             /\ last'.socket = states[g].context.X
             /\ \E position \in Position : BoardOf(states'[g]) = (position :> "X")]_vars

\* C12 witness: after the join of another connection, the creator has just
\* made the first move.
C12_Witness ==
  \E g \in DOMAIN states :
    /\ last.type = "PLAY" /\ g \in rooms[last.socket] /\ states[g].changed
    /\ last.socket = states[g].context.X
    /\ states[g].context.O \notin {None, states[g].context.X}
    /\ states[g].value = "O"
    /\ BoardSize(BoardOf(states[g])) = 1

\* C13: as long as a room is registered its X never changes and its O, once
\* recorded, is never replaced (restarts included); a JOIN_GAME naming a
\* room that is not WAITING leaves its participants, board, turn, result
\* and state as they were.
C13_RolesAreFixed ==
  [][\A g \in Kept :
       /\ states'[g].context.X = states[g].context.X
       /\ states[g].context.O # None => states'[g].context.O = states[g].context.O
       /\ (/\ last'.type = "JOIN_GAME"
           /\ states[g].value # "WAITING"
           /\ JOIN_GAME(last'.socket, g)) =>
             /\ states'[g].context = states[g].context
             /\ states'[g].value = states[g].value
             /\ ~states'[g].changed]_vars

\* C13 witness: a third connection has just sent JOIN_GAME for a room whose
\* two players are in the middle of a game, and the players are the same.
C13_Witness ==
  \E g \in DOMAIN states :
    /\ last.type = "JOIN_GAME" /\ g \in rooms[last.socket]
    /\ ~states[g].changed
    /\ states[g].context.O # None
    /\ last.socket \notin {states[g].context.X, states[g].context.O}
    /\ states[g].value = "O"
    /\ BoardSize(BoardOf(states[g])) = 1

\* C14 (as amended): a JOIN_GAME naming an identifier that is not registered
\* disconnects the sender and registers nothing: the sender ends in no
\* room, no identifier is issued, the other connections stay where they
\* are, and every room the sender was not in stays registered and
\* unchanged; the rooms the sender was in are removed, as on any disconnect.
C14_UnknownJoinDisconnects ==
  [][last'.type = "JOIN_GAME" =>
       \A game \in Range(GameNames) \ DOMAIN states :
         JOIN_GAME(last'.socket, game) =>
           /\ conn' = [conn EXCEPT ![last'.socket] = "disconnected"]
           /\ rooms' = [rooms EXCEPT ![last'.socket] = {}]
           /\ issued' = issued
           /\ DOMAIN states' = (DOMAIN states) \ rooms[last'.socket]
           /\ \A g \in DOMAIN states' : states'[g] = states[g]]_vars

\* C14 witness: a connection has just been disconnected for naming an
\* unregistered identifier while another connection's room is registered.
C14_Witness ==
  \E g \in DOMAIN states :
    /\ last.type = "JOIN_GAME"
    /\ conn[last.socket] = "disconnected"
    /\ rooms[last.socket] = {}
    /\ states[g].context.X # last.socket
    /\ conn[states[g].context.X] = "connected"

\* C14 as stated: a JOIN_GAME naming an identifier that is not registered
\* disconnects the sender and leaves the registry and every registered room
\* unchanged, the sender ending in no room.
C14_UnknownJoinKeepsRegistry ==
  [][last'.type = "JOIN_GAME" =>
       \A game \in Range(GameNames) \ DOMAIN states :
         JOIN_GAME(last'.socket, game) =>
           /\ conn'[last'.socket] = "disconnected"
           /\ rooms'[last'.socket] = {}
           /\ states' = states]_vars

\* C15: CREATE_GAME registers exactly one room, under an identifier that was
\* not registered, in WAITING with the sender as X, no O, an empty board, no
\* result and turn X, and leaves the other rooms alone; while a room is
\* WAITING, PLAY and RESTARTED leave it as it is.
C15_CreateRegistersWaitingRoom ==
  [][/\ last'.type = "CREATE_GAME" =>
          /\ \E g \in (DOMAIN states') \ (DOMAIN states) :
               /\ DOMAIN states' = (DOMAIN states) \cup {g}
               /\ g \notin issued
               /\ states'[g].value = "WAITING"
               /\ states'[g].context =
                      [X |-> last'.socket, O |-> None,
                       client |-> [game |-> g, turn |-> "X",
                                   board |-> EmptyBoard, result |-> None]]
          /\ \A g \in DOMAIN states : states'[g] = states[g]
     /\ last'.type \in {"PLAY", "RESTARTED"} =>
          \A g \in DOMAIN states :
            states[g].value = "WAITING" =>
              /\ g \in DOMAIN states'
              /\ states'[g].value = "WAITING"
              /\ states'[g].context = states[g].context]_vars

\* C15 witness: the creator has just sent PLAY to the room it created, and
\* the room is still WAITING with an empty board.
C15_Witness ==
  \E g \in DOMAIN states :
    /\ last.type = "PLAY" /\ g \in rooms[last.socket]
    /\ last.socket = states[g].context.X
    /\ states[g].value = "WAITING"
    /\ states[g].context.O = None
    /\ BoardOf(states[g]) = EmptyBoard
    /\ ~states[g].changed

\* The identifiers of the rooms that were registered and have been removed.
Removed == issued \ DOMAIN states

LeftNoticesOf(box, g) ==
  {i \in DOMAIN box : box[i].event = "USER_LEFT" /\ box[i].room = g}

C18_OnlyParticipantsAttached ==
  /\ [](\A g \in DOMAIN states :
          InRoom(rooms, g) \subseteq {states[g].context.X, states[g].context.O})
  /\ [][\A g \in DOMAIN states :
          (/\ last'.type = "JOIN_GAME"
           /\ states[g].context.O # None
           /\ JOIN_GAME(last'.socket, g)) =>
             /\ rooms' = rooms
             /\ \A i \in DOMAIN outbox' : outbox'[i].event # "GAME_STARTED"]_vars

\* C19: a PLAY or RESTARTED makes the machine of at most one room take a
\* transition, whatever rooms its sender has created or joined.
C19_OneRoomPerIntent ==
  last.type \in {"PLAY", "RESTARTED"} =>
    Cardinality({g \in rooms[last.socket] \cap DOMAIN states : states[g].changed}) <= 1

\* The step is a handler run for room g: a PLAY, a RESTARTED or the
\* disconnect of a connection that is in g, or a JOIN_GAME naming g.
HandledFor(g) ==
  \/ /\ last'.type \in {"PLAY", "RESTARTED", "disconnecting"}
     /\ last'.socket \in InRoom(rooms, g)
  \/ /\ last'.type = "JOIN_GAME"
     /\ JOIN_GAME(last'.socket, g)

\* C20: no two registered rooms hold the same Map instance as their board,
\* restarts included; and for two registered rooms with no connection in
\* common, a handler run for the one leaves the other registered with the
\* same board (instance and entries), turn, result, participants and state.
C20_RoomsAreIndependent ==
  /\ [](\A g1, g2 \in DOMAIN states : g1 # g2 => heap[g1] # heap[g2])
  /\ [][\A g1, g2 \in DOMAIN states :
          (/\ g1 # g2
           /\ InRoom(rooms, g1) \cap InRoom(rooms, g2) = {}
           /\ HandledFor(g1)) =>
             /\ g2 \in DOMAIN states'
             /\ states'[g2].context = states[g2].context
             /\ states'[g2].value = states[g2].value
             /\ heap'[g2] = heap[g2]]_vars

\* C20 witness: a finished game has just been restarted in one room while
\* another room, of another connection, is registered.
C20_Witness ==
  \E g1, g2 \in DOMAIN states :
    /\ g1 # g2
    /\ InRoom(rooms, g1) \cap InRoom(rooms, g2) = {}
    /\ InRoom(rooms, g2) # {}
    /\ last.type = "RESTARTED" /\ last.socket \in InRoom(rooms, g1)
    /\ states[g1].changed
    /\ states[g1].value = "X"
    /\ BoardOf(states[g1]) = EmptyBoard
    /\ heap[g1] # heap[g2]

\* The rooms that were registered and have been removed from the registry.
Destroyed ==
  {g \in issued \ DOMAIN states :
     \A i \in DOMAIN pending.queue :
       ~(pending.queue[i].type = "CREATE_GAME" /\ pending.queue[i].game = g)}

\* C21: a disconnect does not race with a suspended CREATE_GAME or JOIN_GAME:
\* no room is registered whose creator has disconnected, and no handler
\* broadcasts a snapshot or GAME_STARTED for a room that was destroyed
\* before it ran.
C21_DisconnectDoesNotRace ==
  /\ [](\A g \in DOMAIN states : conn[states[g].context.X] = "connected")
  /\ [][\A i \in DOMAIN outbox' :
          (outbox'[i].room \in Destroyed /\ outbox'[i].to # {}) =>
            outbox'[i].event = "USER_LEFT"]_vars

\* C22: every key of a room's board is a position in 0..8 and the board has
\* at most 9 entries, whatever integer a PLAY carries; a PLAY whose position
\* is not in 0..8 makes no machine take a transition.
C22_BoardKeysArePositions ==
  /\ [](\A g \in DOMAIN states :
          /\ DOMAIN BoardOf(states[g]) \subseteq Position
          /\ BoardSize(BoardOf(states[g])) <= 9)
  /\ [][\A position \in OutOfRange :
          (last'.type = "PLAY" /\ PLAY(last'.socket, position)) =>
            \A g \in DOMAIN states' : ~states'[g].changed]_vars

\* The win detector as a scan of all 8 lines of a board, whatever was played
\* last: the first line, in the order of winPatterns, that player R holds
\* entirely, or None.
FullScan(board, R) ==
  LET held == {i \in DOMAIN winPatterns : FullLine(board, i, R)}
  IN  IF held = {} THEN None ELSE winPatterns[FirstOf(held)].result

\* The line matchResult reports, None when it reports Draw or nothing.
LineOf(result) == IF result \in Result \ {"Draw"} THEN result ELSE None

\* The moves that are valid in machine m: the positions its board lacks,
\* played by the connection whose turn it is.
ValidMoves(m) ==
  {e \in [type : {"PLAYED"}, player : AllSockets, position : Position] :
     m.value \in {"X", "O"} /\ isValidPlay(m.context, e, m.value)}

\* C23: for every reachable board and every valid move on it, the line that
\* matchResult finds among the lines containing the position played is the
\* line a scan of all 8 lines finds on the board with the move made.
C23_IncrementalEqualsFullScan ==
  \A g \in DOMAIN states : \A e \in ValidMoves(states[g]) :
    LET m == states[g]
        R == PlayerOf(m.value)
    IN  LineOf(matchResult(m.context, e, R))
          = FullScan(BoardSet(BoardOf(m), e.position, R), R)

\* C23 witness: a valid move that completes a line, on a board where the
\* other player holds two positions of another line, and a valid move that
\* completes none.
C23_Witness ==
  \E g \in DOMAIN states : \E e1, e2 \in ValidMoves(states[g]) :
    LET m == states[g]
        R == PlayerOf(m.value)
    IN  /\ LineOf(matchResult(m.context, e1, R)) # None
        /\ matchResult(m.context, e2, R) = None
        /\ \E i \in DOMAIN winPatterns :
             Cardinality({q \in Range(winPatterns[i].positions) :
                            BoardGet(BoardOf(m), q) \notin {R, None}}) = 2

\* The names of the lines of a set of patterns.
NamesOf(lines) == {winPatterns[i].result : i \in lines}

\* C24: when one move completes two lines, the result is one line, one of
\* the two, and which one is fixed by the board alone: the one that comes
\* first in winPatterns, so Diagonal1 when both diagonals are completed.
C24_OneCanonicalLine ==
  \A g \in DOMAIN states :
    LET m == states[g]
        lines == CompletedLines(BoardOf(m))
    IN  Cardinality(lines) >= 2 =>
          /\ ClientOf(m).result \in NamesOf(lines)
          /\ \A i \in lines :
               winPatterns[i].result = ClientOf(m).result => \A j \in lines : i <= j
          /\ {"Diagonal1", "Diagonal2"} \subseteq NamesOf(lines) =>
               ClientOf(m).result = "Diagonal1"

\* C24 witness: the move just accepted completed both diagonals.
C24_Witness ==
  \E g \in DOMAIN states :
    /\ last.type = "PLAY" /\ g \in rooms[last.socket] /\ states[g].changed
    /\ NamesOf(CompletedLines(BoardOf(states[g]))) = {"Diagonal1", "Diagonal2"}
    /\ ClientOf(states[g]).result = "Diagonal1"

\* The participants of a room: its recorded first and second player.
Participants(m) == {m.context.X, m.context.O} \ {None}

\* A snapshot is on its way to the client of socket s.
SnapshotInFlight(s) == \E i \in DOMAIN inbox[s] : inbox[s][i].event = "STATE_CHANGE"

\* Board, turn and result as the room holds them, and as a client stores them.
Authoritative(m) ==
  [board |-> BoardOf(m), turn |-> ClientOf(m).turn, result |-> ClientOf(m).result]

Stored(c) ==
  [board |-> c.context.server.board, turn |-> c.context.server.turn,
   result |-> c.context.server.result]

\* C25: every snapshot is emitted to every connection that is in the room,
\* and a participant's client to which no snapshot is on its way stores the
\* board, turn and result the room holds (so two such clients store the same).
C25_ViewsFollowTheRoom ==
  /\ \A i \in DOMAIN outbox :
       outbox[i].event = "STATE_CHANGE" => outbox[i].to = InRoom(rooms, outbox[i].room)
  /\ \A g \in DOMAIN states : \A s \in Participants(states[g]) :
       ~SnapshotInFlight(s) => Stored(clients[s]) = Authoritative(states[g])

\* C25 witness: a decided game, three marks against two, that both
\* participants' clients have been told of, nothing being on its way to them.
C25_Witness ==
  \E g \in DOMAIN states :
    /\ Cardinality(Participants(states[g])) = 2
    /\ states[g].value = "GAME_OVER"
    /\ BoardSize(BoardOf(states[g])) = 5
    /\ \A s \in Participants(states[g]) :
         /\ inbox[s] = << >>
         /\ clients[s].value = "GAME_OVER"
         /\ Stored(clients[s]).result = ClientOf(states[g]).result

(* ------------------------ reading the local game ---------------------- *)

\* The cells of line i, i being the place of the line in LineTypes (and in
\* Ex1_LineTypes): the three columns, the three rows, the two diagonals.
LineCells(i) ==
  CASE i \in 1..3 -> {cell \in Coordinates : cell.column = i}
    [] i \in 4..6 -> {cell \in Coordinates : cell.row = i - 3}
    [] i = 7 -> {cell \in Coordinates : cell.row = cell.column}
    [] i = 8 -> {cell \in Coordinates : cell.row + cell.column = 4}

\* The names of the lines in the App a.
LineNames(a) == IF a.source = "part_001" THEN LineTypes ELSE Ex1_LineTypes

\* The result's name (a line's, or Draw) and player in the App a, or None.
ResultName(a) ==
  IF ~isSome(a.state.context.result) THEN None
  ELSE IF a.source = "part_001" THEN a.state.context.result[1].type
  ELSE a.state.context.result[1].result

ResultPlayer(a) ==
  IF isSome(a.state.context.result) /\ ResultName(a) # "Draw"
  THEN a.state.context.result[1].player
  ELSE None

\* Player p has played the three cells of line i.
HoldsLine(a, i, p) == \A cell \in LineCells(i) : a.state.context.board[cell] = Played(p)

\* The lines a player holds, and the cells that are played.
LinesHeld(a) == {i \in 1..8 : \E p \in Player : HoldsLine(a, i, p)}

PlayedCells(a) == {cell \in Coordinates : a.state.context.board[cell].kind = "Played"}

\* The lines player p holds.
LinesOf(a, p) == {i \in 1..8 : HoldsLine(a, i, p)}

C27_FullBoardIsOver ==
  /\ PlayedCells(app) = Coordinates =>
       /\ app.state.value = "DONE"
       /\ ResultName(app) = "Draw" <=> LinesHeld(app) = {}
       /\ LinesHeld(app) # {} =>
            /\ ResultName(app) \in {LineNames(app)[i] : i \in LinesHeld(app)}
            /\ LinesOf(app, ResultPlayer(app)) = LinesHeld(app)
  /\ ResultName(app) = "Draw" => PlayedCells(app) = Coordinates

\* C27 witness: the ninth play completed a line.
C27_Witness ==
  /\ PlayedCells(app) = Coordinates
  /\ LinesHeld(app) # {}
  /\ ResultName(app) \notin {None, "Draw"}
  /\ app.state.value = "DONE"

\* The player to move in the App a: the machine's state in part_001,
\* ctx.turn in example1.
ToMove(a) == IF a.source = "part_001" THEN a.state.value ELSE a.state.context.turn

\* C28: a click on a cell that is already played leaves the board, the line
\* and draw counters, the result and the player to move as they are, in a
\* game in progress and in a finished one.
C28_PlayedCellClickDoesNothing ==
  [][\A cell \in PlayedCells(app) :
       (last'.type = "onClick" /\ last'.cell = cell) =>
         /\ app'.state.context = app.state.context
         /\ app'.state.value = app.state.value
         /\ ToMove(app') = ToMove(app)]_vars

\* C28 witness: in a game in progress the last click was on a cell that
\* holds the mark of the player who is to move, a mark of an earlier turn.
C28_Witness ==
  /\ last.type = "onClick"
  /\ app.state.value \in {"X", "O"}
  /\ app.state.context.board[last.cell] = Played(ToMove(app))

\* The line and draw counters of the App a.
CountersOf(a) ==
  IF a.source = "part_001" THEN a.state.context.matchScore ELSE a.state.context.accumulators

\* The State the App a was opened with.
OpenedAs(a) == IF a.source = "part_001" THEN LocalApp ELSE Ex1_App

\* C29: after restart was pressed at game over all nine cells are playable,
\* the result and every line and draw counter are cleared and X is to move:
\* the App is in the State it was opened with, so nothing of the plays before
\* the restart is left to decide the next game.
C29_RestartCleansTheGame ==
  last.type = "restart" =>
    /\ PlayedCells(app) = {}
    /\ ResultName(app) = None
    /\ \A type \in DOMAIN CountersOf(app) : CountersOf(app)[type] = none
    /\ ToMove(app) = "X"
    /\ app.state.value = "X"
    /\ app = OpenedAs(app)

\* C29 witness: restart has just been pressed.
C29_Witness ==
  /\ last.type = "restart"
  /\ app.state.value = "X"
  /\ PlayedCells(app) = {}

\* The restart button is rendered: the fold of context.result (part_001
\* 406-426, example1 413-433).
RestartShown(a) == isSome(a.state.context.result)

\* The machine of the App a after the event of the restart button.
AfterRestartEvent(a) ==
  IF a.source = "part_001" THEN LocalTransition(a.state, [type |-> "RESTARTED"])
  ELSE Ex1_Transition(a.state, [type |-> "RESTART"])

\* C30: the result is present exactly when the machine is in DONE; in X and
\* in O there is no result, the restart button is not rendered and the machine
\* ignores the restart event; in DONE the result is there, the button is
\* rendered and the event is taken.
C30_ResultExactlyAtGameOver ==
  /\ app.state.value \in {"X", "O", "DONE"}
  /\ isSome(app.state.context.result) <=> app.state.value = "DONE"
  /\ app.state.value \in {"X", "O"} =>
       /\ ResultName(app) = None
       /\ ~RestartShown(app)
       /\ AfterRestartEvent(app) = app.state
  /\ app.state.value = "DONE" =>
       /\ ResultName(app) # None
       /\ RestartShown(app)
       /\ AfterRestartEvent(app).value = "X"

\* C30 witness: a click has just ended the game.
C30_Witness ==
  /\ last.type = "onClick"
  /\ app.state.value = "DONE"
  /\ RestartShown(app)
  /\ AfterRestartEvent(app) # app.state

\* The cells player p has played in the App a.
MarksOf(a, p) == {cell \in Coordinates : a.state.context.board[cell] = Played(p)}

\* C31: the marks go on the board X, O, X, O, ...: there are as many X marks
\* as O marks or one more, and while the game is in progress the player to
\* move is X when they are as many (so the first move is X's) and O when X
\* has one more.
C31_MarksAlternate ==
  LET x == Cardinality(MarksOf(app, "X"))
      o == Cardinality(MarksOf(app, "O"))
  IN  /\ x - o \in {0, 1}
      /\ x + o = Cardinality(PlayedCells(app))
      /\ app.state.value \in {"X", "O"} => ToMove(app) = IF x = o THEN "X" ELSE "O"

\* C31 witness: X, O and X have played and it is O's move.
C31_Witness ==
  /\ last.type = "onClick"
  /\ Cardinality(MarksOf(app, "X")) = 2
  /\ Cardinality(MarksOf(app, "O")) = 1
  /\ app.state.value \in {"X", "O"}
  /\ ToMove(app) = "O"

\* Both participants of machine m are recorded and connected.
BothConnected(m) ==
  /\ m.context.O # None
  /\ conn[m.context.X] = "connected"
  /\ conn[m.context.O] = "connected"

\* The PLAY handler run by participant s would make room g's machine take a
\* transition for some position.
SomePlayAccepted(g, s) ==
  /\ g \in rooms[s]
  /\ \E position \in Position :
       Transition(states[g], [type |-> "PLAYED", player |-> s, position |-> position]).changed

\* The RESTARTED handler run by participant s would make room g's machine
\* take a transition.
RestartAccepted(g, s) ==
  /\ g \in rooms[s] \ {s}
  /\ Transition(states[g], [type |-> "RESTARTED"]).changed

\* C32: a room with both participants connected is never stuck: in a turn
\* state a PLAY of the player to move is accepted, in GAME_OVER a RESTART of
\* a participant is accepted, and the room is never in a turn state with a
\* full board.
C32_RoomNeverStuck ==
  \A g \in DOMAIN states :
    LET m == states[g]
    IN  BothConnected(m) =>
          /\ m.value \in Player \cup {"GAME_OVER"}
          /\ m.value \in Player =>
               \E s \in Participants(m) : IsTurnOf(m, s) /\ SomePlayAccepted(g, s)
          /\ m.value = "GAME_OVER" =>
               \E s \in Participants(m) : RestartAccepted(g, s)
          /\ ~(m.value \in Player /\ BoardSize(BoardOf(m)) = 9)

\* C33: in every room the result is present exactly when the machine is in
\* GAME_OVER.
C33_ResultIffGameOver ==
  \A g \in DOMAIN states :
    /\ states[g].value \in {"WAITING", "X", "O", "GAME_OVER"}
    /\ ClientOf(states[g]).result # None <=> states[g].value = "GAME_OVER"

\* C33 witness: a PLAY has just ended a game with a line.
C33_Witness ==
  \E g \in DOMAIN states :
    /\ last.type = "PLAY" /\ states[g].changed
    /\ states[g].value = "GAME_OVER"
    /\ ClientOf(states[g]).result \in {winPatterns[i].result : i \in DOMAIN winPatterns}

\* The text of the Game component's <p> for a snapshot with a result
\* (832-849): "Draw", or the snapshot's turn followed by " Won".
ResultText(server) ==
  IF server.result = "Draw" THEN <<"Draw">> ELSE <<server.turn, "Won">>

\* C34: whenever a room's result is a line, the three positions of that line
\* hold the mark of one role, that role is the snapshot's turn (the move
\* that ended the game was made by the connection of that role and did not
\* flip the turn), and it is the role the clients' text names as the winner.
C34_WinnerIsTheTurn ==
  \A g \in DOMAIN states :
    LET m == states[g]
        server == ClientOf(m)
    IN  (server.result \notin {None, "Draw"}) =>
          /\ \E i \in DOMAIN winPatterns :
               /\ winPatterns[i].result = server.result
               /\ \E R \in Player :
                    /\ FullLine(server.board, i, R)
                    /\ server.turn = R
                    /\ ResultText(server) = <<R, "Won">>
          /\ (last.type = "PLAY" /\ g \in rooms[last.socket] /\ m.changed) =>
               last.socket = IF server.turn = "X" THEN m.context.X ELSE m.context.O

\* C34 witness: O has just ended a game with a line.
C34_Witness ==
  \E g \in DOMAIN states :
    /\ last.type = "PLAY" /\ g \in rooms[last.socket] /\ states[g].changed
    /\ last.socket = states[g].context.O
    /\ ClientOf(states[g]).result \notin {None, "Draw"}
    /\ ClientOf(states[g]).turn = "O"

\* The positions of a board that hold the mark of role R.
MarksOn(board, R) == {position \in DOMAIN board : board[position] = R}

\* C35: in every room the number of X marks minus the number of O marks is 0
\* or 1: 0 in WAITING and in state X, 1 in state O.
C35_MarkCountsFollowTheTurn ==
  \A g \in DOMAIN states :
    LET m == states[g]
        x == Cardinality(MarksOn(BoardOf(m), "X"))
        o == Cardinality(MarksOn(BoardOf(m), "O"))
    IN  /\ x + o = BoardSize(BoardOf(m))
        /\ x - o \in {0, 1}
        /\ m.value \in {"WAITING", "X"} => x - o = 0
        /\ m.value = "O" => x - o = 1

\* C35 witness: after PLAY intents of both connections, some of them
\* rejected, the room is in state O with three X marks and two O marks.
C35_Witness ==
  \E g \in DOMAIN states :
    /\ last.type = "PLAY" /\ g \in rooms[last.socket]
    /\ states[g].value = "O"
    /\ Cardinality(MarksOn(BoardOf(states[g]), "X")) = 3
    /\ Cardinality(MarksOn(BoardOf(states[g]), "O")) = 2

\* C36: a PLAY, RESTARTED or JOIN_GAME intent or the disconnect of a
\* connection that is neither the recorded X nor the recorded O of a room
\* with both players recorded leaves the room registered, with its state,
\* board, turn, result and participants as they were.
C36_OutsiderChangesNothing ==
  [][\A g \in DOMAIN states :
       (/\ states[g].context.O # None
        /\ last'.type \in {"PLAY", "RESTARTED", "JOIN_GAME", "disconnecting"}
        /\ last'.socket \notin Participants(states[g])) =>
         /\ g \in DOMAIN states'
         /\ states'[g].value = states[g].value
         /\ states'[g].context = states[g].context]_vars

\* The places, in the order Row1, Row2, Row3, Column1, Column2, Column3,
\* Diagonal1, Diagonal2, of the lines that role R holds entirely on the
\* board once the move e is made on machine m's board.
CompletedBy(m, e, R) ==
  LET order == <<"Row1", "Row2", "Row3", "Column1", "Column2", "Column3",
                 "Diagonal1", "Diagonal2">>
      after == BoardSet(BoardOf(m), e.position, R)
  IN  {k \in DOMAIN order :
         \E i \in DOMAIN winPatterns :
           winPatterns[i].result = order[k] /\ FullLine(after, i, R)}

\* C37: when a valid move completes more than one line, the win detector
\* returns, and the room records, the completed line that comes first in
\* the order Row1, Row2, Row3, Column1, Column2, Column3, Diagonal1,
\* Diagonal2: a row before a column, a row or a column before a diagonal.
C37_RowsBeforeColumnsBeforeDiagonals ==
  \A g \in DOMAIN states : \A e \in ValidMoves(states[g]) :
    LET m == states[g]
        R == PlayerOf(m.value)
        order == <<"Row1", "Row2", "Row3", "Column1", "Column2", "Column3",
                   "Diagonal1", "Diagonal2">>
        completed == CompletedBy(m, e, R)
    IN  Cardinality(completed) >= 2 =>
          /\ matchResult(m.context, e, R) = order[FirstOf(completed)]
          /\ OnPLAYED(m, e).value = "GAME_OVER"
          /\ ClientOf(OnPLAYED(m, e)).result = order[FirstOf(completed)]
          /\ (\E k \in completed : k <= 3) => matchResult(m.context, e, R) \in {"Row1", "Row2", "Row3"}
          /\ (\E k \in completed : k >= 7) =>
               (matchResult(m.context, e, R) \in {"Diagonal1", "Diagonal2"} <=> completed = {7, 8})

\* C37 witness: a room where one valid move completes a column and a
\* diagonal, and the detector returns the column.
C37_Witness ==
  \E g \in DOMAIN states : \E e \in ValidMoves(states[g]) :
    LET m == states[g]
        R == PlayerOf(m.value)
    IN  /\ \E k \in CompletedBy(m, e, R) : k \in 4..6
        /\ \E k \in CompletedBy(m, e, R) : k \in 7..8
        /\ matchResult(m.context, e, R) \in {"Column1", "Column2", "Column3"}

\* The client of socket s, which has had its GAME_STARTED, takes a snapshot
\* in this step.
TakesSnapshot(s) ==
  /\ conn[s] = "connected" /\ conn'[s] = "connected"
  /\ inbox[s] # << >> /\ inbox'[s] = Tail(inbox[s])
  /\ Head(inbox[s]).event = "STATE_CHANGE"
  /\ clients[s].context.socket

\* The view state that fits a snapshot in the client whose role is me.
ViewFor(me, snapshot) ==
  IF snapshot.result # None THEN "GAME_OVER"
  ELSE IF snapshot.turn = me THEN "MY_TURN"
  ELSE "NOT_MY_TURN"

\* Nothing is on its way to a participant of machine m.
Quiet(m) == \A s \in Participants(m) : inbox[s] = << >>

\* C38: a client that has had its GAME_STARTED is, after it takes a
\* snapshot, in GAME_OVER if the snapshot has a result, else in MY_TURN if
\* the snapshot's turn is its role, else in NOT_MY_TURN; and whenever both
\* participants of a room are connected and nothing is on its way to them,
\* in a turn state of the room exactly one of the two clients is in MY_TURN,
\* the one whose role is the room's state, and the other in NOT_MY_TURN, and
\* in GAME_OVER of the room both clients are in GAME_OVER.
C38_ViewStateFollowsSnapshot ==
  /\ [][\A s \in ViewClients :
          TakesSnapshot(s) =>
            clients'[s].value = ViewFor(clients[s].context.me, Head(inbox[s]).client)]_vars
  /\ [](\A g \in DOMAIN states :
          LET m == states[g]
          IN  (BothConnected(m) /\ Quiet(m)) =>
                /\ m.value \in Player =>
                     /\ Cardinality({s \in Participants(m) : clients[s].value = "MY_TURN"}) = 1
                     /\ clients[m.context[m.value]].value = "MY_TURN"
                     /\ \A s \in Participants(m) :
                          clients[s].value \in {"MY_TURN", "NOT_MY_TURN"}
                /\ m.value = "GAME_OVER" =>
                     \A s \in Participants(m) : clients[s].value = "GAME_OVER")

\* C38 witness: X has played, both clients have taken the snapshot, and the
\* client of O is in MY_TURN, the client of X in NOT_MY_TURN.
C38_Witness ==
  \E g \in DOMAIN states :
    /\ BothConnected(states[g]) /\ Quiet(states[g])
    /\ states[g].value = "O"
    /\ BoardSize(BoardOf(states[g])) = 1
    /\ clients[states[g].context.O].value = "MY_TURN"
    /\ clients[states[g].context.X].value = "NOT_MY_TURN"
    /\ clients[states[g].context.O].context.server.turn = "O"

\* The counter of line i in the App a, and the Draw counter.
CounterOf(a, i) == CountersOf(a)[LineNames(a)[i]]

DrawCounter(a) == CountersOf(a)["Draw"]

\* Every counter agrees with the board: a line's counter is none iff no
\* cell of the line is played and else counts the marks its player has on
\* the line; the Draw counter is none on the empty board and else counts
\* the played cells.
CountersAgree(a) ==
  /\ \A i \in 1..8 :
       LET c == CounterOf(a, i)
       IN  /\ ~isSome(c) <=> LineCells(i) \cap PlayedCells(a) = {}
           /\ isSome(c) =>
                /\ c[1].count >= 1
                /\ c[1].count = Cardinality(LineCells(i) \cap MarksOf(a, c[1].player))
  /\ ~isSome(DrawCounter(a)) <=> PlayedCells(a) = {}
  /\ isSome(DrawCounter(a)) => DrawCounter(a)[1].count = Cardinality(PlayedCells(a))

\* A line's counter gets the player who plays first on the line and keeps
\* that player until the restart.
CountersKeepFirstPlayer ==
  \A i \in 1..8 :
    LET c == CounterOf(app, i)
        d == CounterOf(app', i)
    IN  /\ (~isSome(c) /\ isSome(d)) => d[1].player = ToMove(app)
        /\ (isSome(c) /\ isSome(d)) => d[1].player = c[1].player

====
